---- MODULE Spec2Model ----
(***************************************************************************)
(* Model of the core of factorio-mod-downloader:                           *)
(*   core/dependency_resolver.py  DependencyResolver                       *)
(*   core/file_downloader.py      FileDownloader                           *)
(*   infrastructure/recovery.py   RecoveryManager                          *)
(*   infrastructure/errors.py     error classification                     *)
(*   core/downloader.py           CoreDownloader                           *)
(***************************************************************************)
EXTENDS Integers, Sequences, FiniteSets, TLC

(***************************************************************************)
(* Bounds of the model.                                                    *)
(***************************************************************************)
\* longest dependency list a catalog page shows
MaxDeps == 2
\* most page loads that fail during one run
MaxFailures == 1
\* most bytes of a resource
MaxSize == 2
\* largest config.max_retries
MaxRetries == 2
\* longest download list of the download_mod runs
MaxList == 2
\* most download_mod calls of a run
MaxCalls == 2
\* most failures the environment causes during the download_mod runs
MaxErrors == 2

(***************************************************************************)
(* The catalog: mod names and page URLs.                                   *)
(***************************************************************************)
\* dependency_resolver.py:14
RESERVED_DEPENDENCIES == {"space-age"}

\* the mod names of the catalog
Names == {"A", "B", "C"} \cup RESERVED_DEPENDENCIES

\* mod_info_fetcher.py:23-24: a URL is the page prefix and the mod it shows.
\* get_required_dependencies builds BASE_MOD_URL + BASE_FACTORIO_MOD_URL/<name>;
\* the caller of resolve_dependencies passes either that form or the bare
\* portal URL (cli/app.py:283 passes args.url unchanged).
BASE_FACTORIO_MOD_URL == "portal"
BASE_MOD_URL == "re146"

Urls == {BASE_FACTORIO_MOD_URL, BASE_MOD_URL} \X Names

DepUrl(dep_name) == <<BASE_MOD_URL, dep_name>>

\* the name shown by the page at a URL (dd#mod-info-name)
PageName(url) == url[2]

\* all dependency lists a page may show: no name twice, at most MaxDeps names
RECURSIVE ListsOver(_, _)
ListsOver(S, n) ==
    IF n = 0 THEN {<<>>}
    ELSE {<<>>} \cup UNION {{<<x>> \o l : l \in ListsOver(S \ {x}, n - 1)} : x \in S}

DepLists == ListsOver(Names, MaxDeps)

\* Mod names other than the reserved ones are interchangeable, so the
\* catalog is enumerated up to renaming: a page mentions a name no page has
\* mentioned before only if it is the next unused name in the order A, B, C.
Rank(name) == CASE name = "A" -> 1 [] name = "B" -> 2 [] name = "C" -> 3
                [] OTHER -> 0

InOrder(l, mentioned) ==
    \A k \in 1..Len(l) :
        Rank(l[k]) <= 1 + Cardinality({n \in mentioned \cup {l[j] : j \in 1..(k - 1)} :
                                          Rank(n) > 0})

(***************************************************************************)
(* DependencyTree (dependency_resolver.py:17-21).  None is the value       *)
(* _resolve_recursive returns for a visited or reserved mod.               *)
(***************************************************************************)
None == [isNone |-> TRUE]

ModInfo(name, url) == [name |-> name, url |-> url]

DependencyTree(root, dependencies) ==
    [isNone |-> FALSE, root |-> root, dependencies |-> dependencies]

VARIABLES
    \* ---- DependencyResolver
    rpc,            \* "idle", "resolving", "done" (returned), "raised"
    mod_url,        \* the URL resolve_dependencies was called with
    analyzed_mods,  \* DependencyResolver.analyzed_mods
    stack,          \* the active _resolve_recursive calls, innermost last
    tree,           \* the value resolve_dependencies returned
    download_list,  \* the value get_download_list returned for tree
    listed,         \* TRUE once get_download_list has run
    \* ---- the catalog as the page-info collaborator has shown it
    shown,          \* names whose dependency list has been shown
    depsOf,         \* name -> the dependency list its page shows
    failedUrls,     \* URLs whose page could not be fetched or parsed
    failedDeps,     \* names whose dependency page could not be fetched
    steps,          \* steps the resolver has taken since resolve_dependencies began
    fetched,        \* the URLs get_page_source was called with in this call
    \* ---- what the program is run with and against
    args,           \* the parsed command line: resume, include_optional
    optsOf,         \* name -> the optional dependencies its page shows
    cancelled,      \* the user has asked to stop
    rm,             \* the last call of a RecoveryManager method and its outcome
    \* ---- the other entry points, one record each, pc "none" when not run
    block,          \* the chunk size of a response (file_downloader.py:158-173)
    batch,          \* the locals of CLIApp.download_batch
    aio,            \* the asyncio ModDownloader and its tasks
    gui             \* the thread-based ModDownloader and its download threads

\* the other entry points
others == <<block, batch, aio, gui>>

\* none of the other entry points is run
OthersIdle ==
    /\ block = [pc |-> "none"]
    /\ batch = [pc |-> "none"]
    /\ aio = [pc |-> "none"]
    /\ gui = [pc |-> "none"]

\* fixed during a download or a resolution
env == <<args, optsOf, cancelled, rm, others>>

rvars == <<rpc, mod_url, analyzed_mods, stack, tree, download_list, listed,
           shown, depsOf, failedUrls, failedDeps, steps, fetched, env>>

(***************************************************************************)
(* get_download_list (dependency_resolver.py:182-215)                      *)
(***************************************************************************)
\* _traverse over the nodes of a list of subtrees, left to right; acc is
\* download_list (seen_mods is the set of its names)
RECURSIVE TraverseAll(_, _)
\* mutant of Traverse: the node is appended before its dependencies
TraversePreOrder(node, acc) ==
    IF node.isNone THEN acc
    ELSE LET seen_mods == {acc[i].name : i \in 1..Len(acc)}
         IN  TraverseAll(node.dependencies,
                         IF node.root.name \notin seen_mods
                         THEN Append(acc, node.root) ELSE acc)

Traverse(node, acc) ==
    IF node.isNone THEN acc
    ELSE LET after == TraverseAll(node.dependencies, acc)
             seen_mods == {after[i].name : i \in 1..Len(after)}
         IN  IF node.root.name \notin seen_mods
             THEN Append(after, node.root)
             ELSE after

TraverseAll(nodes, acc) ==
    IF nodes = <<>> THEN acc
    ELSE TraverseAll(Tail(nodes), Traverse(Head(nodes), acc))

get_download_list(t) ==
    IF t.isNone THEN <<>> ELSE Traverse(t, <<>>)

(***************************************************************************)
(* _resolve_recursive (dependency_resolver.py:70-180), one call frame per  *)
(* active call: the loop of lines 161-178 is at dependency number i.       *)
(***************************************************************************)
Frame(info, dependencies) ==
    [mod_info |-> info, dependencies |-> dependencies, i |-> 1, dep_trees |-> <<>>]

\* the dependency list get_required_dependencies returns for a name whose
\* page shows the required dependencies l and the optional ones o; ok = FALSE
\* is the swallowed fetch failure (mod_info_fetcher.py:220-246)
get_required_dependencies(l, o, include_optional, ok) ==
    LET required_mods == IF include_optional THEN l \o o ELSE l IN
    IF ok THEN [k \in 1..Len(required_mods) |->
                   <<required_mods[k], DepUrl(required_mods[k])>>]
    ELSE <<>>

\* mutant of ReturnTo: a call that yields no subtree ends the caller's loop
ReturnToAbandon(stk, t) ==
    IF stk = <<>> THEN stk
    ELSE LET top == stk[Len(stk)]
         IN  [stk EXCEPT ![Len(stk)] =
                 [top EXCEPT !.i = IF t.isNone THEN Len(top.dependencies) + 1
                                   ELSE top.i + 1,
                             !.dep_trees = IF t.isNone THEN top.dep_trees
                                           ELSE Append(top.dep_trees, t)]]

\* the caller's view of a finished call: the loop of the frame below moves
\* on, with the subtree appended when there is one (lines 169-171)
ReturnTo(stk, t) ==
    IF stk = <<>> THEN stk
    ELSE LET top == stk[Len(stk)]
         IN  [stk EXCEPT ![Len(stk)] =
                 [top EXCEPT !.i = top.i + 1,
                             !.dep_trees = IF t.isNone THEN top.dep_trees
                                           ELSE Append(top.dep_trees, t)]]

\* mutant of MarkAnalyzed: the URL is not recorded
MarkAnalyzedNot(visited, url) == visited

\* line 95
MarkAnalyzed(visited, url) == visited \cup {url}

\* a resolve_dependencies that keeps the visited set of the call before
ClearedNot(visited) == visited

\* line 65: self.analyzed_mods.clear()
Cleared(visited) == {}

\* the record of the page loads of one call: the URLs loaded, and those
\* loaded more than once
NoFetch == [once |-> {}, again |-> {}]

\* line 99: get_page_source(mod_url)
Fetch(log, url) ==
    [once |-> log.once \cup {url},
     again |-> IF url \in log.once THEN log.again \cup {url} ELSE log.again]

\* mutant of IsReserved: no name is reserved
IsReservedNever(mod_name) == FALSE

\* line 112
IsReserved(mod_name) == mod_name \in RESERVED_DEPENDENCIES

\* a leaf that is taken for a failed resolution
LeafNone(mod_info) == None

\* lines 147-149: the tree of a mod without dependencies to follow
Leaf(mod_info) == DependencyTree(mod_info, <<>>)

\* The entry of a call for url up to its first recursive call
\* (lines 89-157).  pageOk: get_page_source, get_mod_name and
\* get_latest_version succeed; l: the list the dependency page shows;
\* depOk: the dependency page loads.  below is the stack of the callers,
\* visited the value of analyzed_mods and log the page loads when the call is
\* made.  A page that does not load raises NetworkError
\* (mod_info_fetcher.py:141), one without name or version ParsingError
\* (mod_info_fetcher.py:162, 182, 195).
Enter(url, below, pageOk, l, depOk, visited, log) ==
    /\ steps' = steps + 1
    /\ analyzed_mods' = IF url \in visited THEN visited ELSE MarkAnalyzed(visited, url)
    /\ fetched' = IF url \in visited THEN log ELSE Fetch(log, url)
    /\ IF url \in visited
       THEN \* lines 90-93
            /\ UNCHANGED <<shown, depsOf, failedDeps, failedUrls>>
            /\ IF below = <<>>
               THEN /\ rpc' = "done"
                    /\ stack' = <<>>
                    /\ tree' = None
               ELSE /\ rpc' = "resolving"
                    /\ stack' = ReturnTo(below, None)
                    /\ UNCHANGED tree
       ELSE IF ~pageOk
       THEN \* lines 99-109 raise
            /\ failedUrls' = failedUrls \cup {url}
            /\ UNCHANGED <<shown, depsOf, failedDeps>>
            /\ IF below = <<>>
               THEN /\ rpc' = "raised"
                    /\ stack' = <<>>
                    /\ tree' = None
               ELSE \* caught at lines 172-178 of the caller
                    /\ rpc' = "resolving"
                    /\ stack' = ReturnTo(below, None)
                    /\ UNCHANGED tree
       ELSE IF IsReserved(PageName(url))
       THEN \* lines 112-117
            /\ UNCHANGED <<shown, depsOf, failedDeps, failedUrls>>
            /\ IF below = <<>>
               THEN /\ rpc' = "done"
                    /\ stack' = <<>>
                    /\ tree' = None
               ELSE /\ rpc' = "resolving"
                    /\ stack' = ReturnTo(below, None)
                    /\ UNCHANGED tree
       ELSE LET mod_name == PageName(url)
                mod_info == ModInfo(mod_name, url)
                dependencies == get_required_dependencies(l, optsOf[mod_name],
                                                          args.include_optional, depOk)
            IN  /\ shown' = IF depOk THEN shown \cup {mod_name} ELSE shown
                /\ depsOf' = IF depOk THEN [depsOf EXCEPT ![mod_name] = l] ELSE depsOf
                /\ failedDeps' = IF depOk THEN failedDeps
                                 ELSE failedDeps \cup {mod_name}
                /\ UNCHANGED failedUrls
                /\ IF dependencies = <<>>
                   THEN \* lines 147-149
                        IF below = <<>>
                        THEN /\ rpc' = "done"
                             /\ stack' = <<>>
                             /\ tree' = Leaf(mod_info)
                        ELSE /\ rpc' = "resolving"
                             /\ stack' = ReturnTo(below, Leaf(mod_info))
                             /\ UNCHANGED tree
                   ELSE /\ rpc' = "resolving"
                        /\ stack' = Append(below, Frame(mod_info, dependencies))
                        /\ UNCHANGED tree

\* the lists the dependency page of a name may show: the one already shown,
\* if any (the catalog does not change during a run)
Mentioned ==
    {PageName(mod_url)} \cup UNION {{depsOf[n][k] : k \in 1..Len(depsOf[n])} : n \in shown}

ListsFor(name) ==
    IF name \in shown THEN {depsOf[name]}
    ELSE {l \in DepLists : InOrder(l, Mentioned)}

\* what the page-info collaborator answers during one call for a name: the
\* mod page fails; or it loads and the dependency page fails; or both load
\* and the dependency page shows l.  A load fails only while fewer than
\* MaxFailures loads have failed.
Failures == Cardinality(failedUrls) + Cardinality(failedDeps)

Answers(name) ==
    {[pageOk |-> TRUE, depOk |-> TRUE, l |-> l] : l \in ListsFor(name)}
    \cup (IF Failures < MaxFailures
          THEN {[pageOk |-> FALSE, depOk |-> TRUE, l |-> <<>>],
                [pageOk |-> TRUE, depOk |-> FALSE, l |-> <<>>]}
          ELSE {})

\* resolve_dependencies (lines 43-68): clears analyzed_mods, then the root call
resolve_dependencies ==
    /\ rpc = "idle"
    /\ \E a \in Answers(PageName(mod_url)) :
          Enter(mod_url, <<>>, a.pageOk, a.l, a.depOk, Cleared(analyzed_mods), NoFetch)
    /\ UNCHANGED <<mod_url, download_list, listed, env>>

\* one iteration of the loop at lines 161-178 of the innermost call
ResolveDependency ==
    /\ rpc = "resolving"
    /\ stack # <<>>
    /\ LET top == stack[Len(stack)] IN
       /\ top.i <= Len(top.dependencies)
       /\ LET dep_url == top.dependencies[top.i][2] IN
          IF dep_url \in analyzed_mods
          THEN \* lines 162-164
               /\ stack' = [stack EXCEPT ![Len(stack)].i = top.i + 1]
               /\ steps' = steps + 1
               /\ UNCHANGED <<analyzed_mods, tree, rpc, shown, depsOf,
                              failedUrls, failedDeps, fetched>>
          ELSE \E a \in Answers(PageName(dep_url)) :
                  Enter(dep_url, stack, a.pageOk, a.l, a.depOk, analyzed_mods, fetched)
    /\ UNCHANGED <<mod_url, download_list, listed, env>>

\* line 180: the innermost call returns its tree
ReturnTree ==
    /\ rpc = "resolving"
    /\ stack # <<>>
    /\ LET top == stack[Len(stack)]
           t == DependencyTree(top.mod_info, top.dep_trees)
           below == SubSeq(stack, 1, Len(stack) - 1)
       IN  /\ top.i > Len(top.dependencies)
           /\ IF below = <<>>
              THEN /\ rpc' = "done"
                   /\ stack' = <<>>
                   /\ tree' = t
              ELSE /\ stack' = ReturnTo(below, t)
                   /\ UNCHANGED <<rpc, tree>>
    /\ steps' = steps + 1
    /\ UNCHANGED <<mod_url, analyzed_mods, download_list, listed,
                   shown, depsOf, failedUrls, failedDeps, fetched, env>>

\* get_download_list applied to the returned tree (downloader.py:106, 220)
GetDownloadList ==
    /\ rpc = "done"
    /\ ~listed
    /\ download_list' = get_download_list(tree)
    /\ listed' = TRUE
    /\ UNCHANGED <<rpc, mod_url, analyzed_mods, stack, tree,
                   shown, depsOf, failedUrls, failedDeps, steps, fetched, env>>

(***************************************************************************)
(* Error classification (infrastructure/errors.py).  An exception is       *)
(* modelled by the name of its class.                                      *)
(***************************************************************************)
NETWORK == "network"
VALIDATION == "validation"
FILESYSTEM == "filesystem"
PARSING == "parsing"

\* subclasses of ModDownloaderError (errors.py:55-136)
ModDownloaderErrors == {"NetworkError", "ValidationError", "FileSystemError", "ParsingError"}

\* the category and the retryable flag each subclass passes to __init__
ErrorCategoryOf(e) ==
    CASE e = "NetworkError" -> NETWORK
      [] e = "ValidationError" -> VALIDATION
      [] e = "FileSystemError" -> FILESYSTEM
      [] OTHER -> PARSING

RetryableOf(e) == e \in {"NetworkError", "ParsingError"}

\* the tuple of classes at errors.py:153-159 and 205-211
RetryableClasses ==
    {"requests.ConnectionError", "requests.Timeout", "requests.ChunkedEncodingError",
     "TimeoutError", "ConnectionError"}

\* isinstance(e, OSError): requests.RequestException derives from IOError, and
\* the built-in TimeoutError, ConnectionError and PermissionError from OSError
IsOSError(e) ==
    e \in RetryableClasses \cup {"requests.HTTPError", "PermissionError", "OSError"}

IsValueError(e) == e \in {"ValueError", "TypeError"}

\* a classifier that takes every error for a retryable one
is_retryable_errorAlways(e) == TRUE

\* errors.py:139-162
is_retryable_error(e) ==
    IF e \in ModDownloaderErrors THEN RetryableOf(e)
    ELSE e \in RetryableClasses

\* a classifier that counts an HTTP error status among the network errors
categorize_errorHttpAsNetwork(e) ==
    IF e \in ModDownloaderErrors THEN ErrorCategoryOf(e)
    ELSE IF e \in RetryableClasses \cup {"requests.HTTPError"} THEN NETWORK
    ELSE IF IsOSError(e) THEN FILESYSTEM
    ELSE IF IsValueError(e) THEN VALIDATION
    ELSE PARSING

\* errors.py:191-219
categorize_error(e) ==
    IF e \in ModDownloaderErrors THEN ErrorCategoryOf(e)
    ELSE IF e \in RetryableClasses THEN NETWORK
    ELSE IF IsOSError(e) THEN FILESYSTEM
    ELSE IF IsValueError(e) THEN VALIDATION
    ELSE PARSING

(***************************************************************************)
(* The exceptions the steps of one download attempt can raise              *)
(* (file_downloader.py:139-213).                                           *)
(***************************************************************************)
\* requests.get and raise_for_status, lines 155-156
GetErrors == {"requests.ConnectionError", "requests.Timeout", "requests.HTTPError"}

\* int() of a malformed length header (lines 164-168), makedirs (181-187),
\* open (189)
OpenErrors == {"ValueError", "FileSystemError", "PermissionError"}

\* iter_content (193) and file.write (197)
StreamErrors == {"requests.ChunkedEncodingError", "OSError"}

\* the progress callback (212) runs the caller's code, which can raise an
\* application error or an exception of any other class
CallbackErrors == {"NetworkError", "ParsingError", "Exception"}

(***************************************************************************)
(* Files.  A file is the sequence of its bytes; the bytes of the resource  *)
(* behind a download URL are 1, 2, ..., size.                              *)
(***************************************************************************)
Absent == [exists |-> FALSE, data |-> <<>>]

File(data) == [exists |-> TRUE, data |-> data]

Resource(size) == [k \in 1..size |-> k]

\* RecoveryManager.PART_EXTENSION (recovery.py:20)
PART_EXTENSION == ".part"

\* a path: the artifact's file name and its suffix
FinalPath(file_name) == <<file_name, "">>

\* recovery.py:32-41
_get_partial_path(file_path) == <<file_path[1], PART_EXTENSION>>

\* artifact file names, one per mod that is not reserved (downloader.py:125)
FileNames == Names \ RESERVED_DEPENDENCIES

Paths == FileNames \X {"", PART_EXTENSION}

VARIABLES
    fs,             \* Paths -> file
    \* ---- the remote storage
    size,           \* bytes of each resource
    accept_ranges,  \* the Accept-Ranges header of HEAD: "bytes", "none" or ""
    range_capable,  \* a ranged request is answered 206 with the range asked for
    \* ---- FileDownloader.download_file
    tpc,            \* "idle", "called", "attempt", "streaming", "returned", "raised"
    output_path,    \* the destination
    resume,         \* argument resume
    max_retries,    \* config.max_retries
    attempt,        \* loop variable of _download_with_retry
    resume_position,
    mode,           \* "ab" or "wb"
    progress,
    next_byte,      \* the next byte of the resource the response delivers
    last_error,
    result,         \* DownloadFileResult: success, size, error
    events,         \* the requests, failures and sleeps of this transfer, in order
    observed,       \* the events the progress observer has been sent, in order
    errors_left     \* failures the environment may still cause

tvars == <<size, accept_ranges, range_capable, tpc, output_path, resume,
           max_retries, attempt, resume_position, mode, progress, next_byte,
           last_error, result, events, observed, errors_left>>

\* config.retry_delay (config.py:40)
retry_delay == 2

NoError == <<"", "", 0>>

\* str(e) of the exception of class e raised in attempt n
Message(e, n) == <<"", e, n>>

(***************************************************************************)
(* RecoveryManager (infrastructure/recovery.py)                            *)
(***************************************************************************)
\* a resume position read from the destination instead of its partial file
get_resume_positionOfDestination(file_path) ==
    IF fs[file_path].exists THEN Len(fs[file_path].data) ELSE 0

\* recovery.py:55-84
get_resume_position(file_path) ==
    LET partial_path == _get_partial_path(file_path) IN
    IF ~fs[partial_path].exists THEN 0
    ELSE IF Len(fs[partial_path].data) > 0 THEN Len(fs[partial_path].data)
    ELSE 0

\* recovery.py:86-129; readOk = FALSE: reading the partial file raises OSError
validate_partial(file_path, readOk) ==
    LET partial_path == _get_partial_path(file_path) IN
    /\ fs[partial_path].exists
    /\ Len(fs[partial_path].data) > 0
    /\ readOk

\* the values of the Accept-Ranges header of the bounds; "" is no header
HeaderValues == {"bytes", "Bytes", "none", "None", "", "items"}

\* str.lower(), line 155
Lower(h) == CASE h = "Bytes" -> "bytes" [] h = "None" -> "none" [] OTHER -> h

\* a can_resume that takes every answered HEAD for range support
can_resumeAnyHeader(file_path, readOk, headOk, trialOk) ==
    validate_partial(file_path, readOk) /\ headOk

\* recovery.py:131-194; headOk = FALSE: the HEAD request raises
\* RequestException; trialOk = FALSE: the HEAD request with Range: bytes=0-0
\* does; range_capable: it is answered 206
can_resume(file_path, readOk, headOk, trialOk) ==
    IF ~validate_partial(file_path, readOk) THEN FALSE
    ELSE IF ~headOk THEN FALSE
    ELSE IF Lower(accept_ranges) = "bytes" THEN TRUE
    ELSE IF Lower(accept_ranges) = "none" THEN FALSE
    ELSE IF ~trialOk THEN FALSE
    ELSE range_capable

\* a call of can_resume or finalize_download and its outcome: value is the
\* value returned (TRUE for a finalize_download that returns, FALSE for one
\* that raises), before the file system when the call was made
Call(op, path, readOk, headOk, trialOk, value, before) ==
    [op |-> op, path |-> path, readOk |-> readOk, headOk |-> headOk,
     trialOk |-> trialOk, value |-> value, before |-> before]

\* can_resume called for the destination of a mod's artifact
CanResume ==
    \E file_name \in {"A"}, readOk \in BOOLEAN, headOk \in BOOLEAN, trialOk \in BOOLEAN :
       LET file_path == FinalPath(file_name) IN
       /\ rm' = Call("can_resume", file_path, readOk, headOk, trialOk,
                     can_resume(file_path, readOk, headOk, trialOk), fs)
       /\ UNCHANGED fs

\* finalize_download(partial_path, final_path), recovery.py:222-261.  fault is
\* the call the operating system refuses, if any: os.makedirs (238),
\* os.remove (243) or os.rename (246); os.rename also fails when there is no
\* file at partial_path.  The OSError is logged and raised again (254-261).
FinalizeDownload ==
    \E file_name \in {"A"}, fault \in {"none", "makedirs", "remove", "rename"} :
       LET final_path == FinalPath(file_name)
           partial_path == _get_partial_path(final_path)
           removed == [fs EXCEPT ![final_path] = Absent]
           renamed == [fs EXCEPT ![final_path] = fs[partial_path],
                                 ![partial_path] = Absent]
           raised(files) ==
               /\ fs' = files
               /\ rm' = Call("finalize_download", final_path, TRUE, TRUE, TRUE, FALSE, fs)
       IN
       IF fault = "makedirs" THEN raised(fs)
       ELSE IF fs[final_path].exists /\ fault = "remove" THEN raised(fs)
       ELSE IF fault = "rename" \/ ~fs[partial_path].exists
       THEN raised(IF fs[final_path].exists THEN removed ELSE fs)
       ELSE /\ fs' = renamed
            /\ rm' = Call("finalize_download", final_path, TRUE, TRUE, TRUE, TRUE, fs)

(***************************************************************************)
(* The progress observer (downloader.py:58-63, 145-150).                   *)
(***************************************************************************)
\* an event sent to the observer: 'analyzing', 'downloading', 'complete' or
\* 'error', and the mod it names
Notice(ev, name) == [ev |-> ev, name |-> name]

\* the observer's record after one more event; a run of 'downloading' events
\* of one mod is kept as one entry
Notify(obs, ev, name) ==
    IF ev = "downloading" /\ obs # <<>> /\ obs[Len(obs)] = Notice(ev, name)
    THEN obs
    ELSE Append(obs, Notice(ev, name))

(***************************************************************************)
(* FileDownloader._download_with_retry (file_downloader.py:115-266)        *)
(***************************************************************************)
\* an entry of events:
\*   "GET":   n is the start of the Range header (-1: no header), at the
\*            attempt, kind "HEAD failed" when can_resume's HEAD request raised
\*   "error": kind is the exception's class, n the attempt, at the value
\*            of progress (the offset the attempt has reached) when it is raised
\*   "sleep": n is the seconds slept, at the attempt
Event(ev, kind, n, at) == [ev |-> ev, kind |-> kind, n |-> n, at |-> at]

\* a loop that runs one attempt too many
AttemptsRemainOneMore == attempt <= max_retries

\* lines 138 and 254: another attempt follows this one
AttemptsRemain == attempt < max_retries

\* DownloadFileResult (lines 20-27, 95-113)
Returned(success, file_size, error) ==
    [success |-> success, size |-> file_size, error |-> error]

\* lines 246-251: the destination is removed unless resume is set
RemoveUnlessResume(files, path) ==
    IF files[path].exists /\ ~resume THEN [files EXCEPT ![path] = Absent] ELSE files

\* The except clauses (lines 218-262) for the exception of class e raised in
\* this attempt, and the loop's end (lines 264-266); files is the file
\* system the attempt leaves, evs the events up to the failure, written the
\* value of progress (line 177, line 198).
Handle(e, files, evs, written) ==
    LET msg == Message(e, attempt)
        failed == Append(evs, Event("error", e, attempt, written))
    IN
    IF IsOSError(e)
    THEN \* except (PermissionError, OSError), lines 218-230
         IF categorize_error(e) = FILESYSTEM
         THEN /\ tpc' = "returned"
              /\ result' = Returned(FALSE, 0, <<"Filesystem error: ", e, attempt>>)
              /\ events' = failed
              /\ fs' = files
              /\ UNCHANGED <<attempt, last_error>>
         ELSE /\ last_error' = msg
              /\ events' = failed
              /\ fs' = files
              /\ IF AttemptsRemain
                 THEN /\ attempt' = attempt + 1
                      /\ tpc' = "attempt"
                      /\ UNCHANGED result
                 ELSE \* the loop is over: lines 264-266
                      /\ tpc' = "returned"
                      /\ result' = Returned(FALSE, 0, msg)
                      /\ UNCHANGED attempt
    ELSE \* except Exception, lines 232-262
         /\ last_error' = msg
         /\ IF ~is_retryable_error(e)
            THEN /\ tpc' = "returned"
                 /\ result' = Returned(FALSE, 0, msg)
                 /\ events' = failed
                 /\ fs' = files
                 /\ UNCHANGED attempt
            ELSE /\ fs' = RemoveUnlessResume(files, output_path)
                 /\ IF AttemptsRemain
                    THEN /\ events' = Append(failed, Event("sleep", "", retry_delay, attempt))
                         /\ attempt' = attempt + 1
                         /\ tpc' = "attempt"
                         /\ UNCHANGED result
                    ELSE /\ tpc' = "returned"
                         /\ result' = Returned(FALSE, 0, msg)
                         /\ events' = failed
                         /\ UNCHANGED attempt

\* the Range header of the GET (lines 150-152); -1: none
RangeHeader(position) == IF position > 0 THEN position ELSE -1

\* line 176
ModeFor(position) == IF position > 0 THEN "ab" ELSE "wb"

\* open(output_path, mode), line 189
Open(files, path, m) ==
    IF m = "wb" \/ ~files[path].exists
    THEN [files EXCEPT ![path] = File(<<>>)]
    ELSE files

\* a loop whose body runs once before its bound is looked at
LoopRunsAtLeastOnce == TRUE

\* line 138: range(1, max_retries + 1) has an element
LoopRuns == max_retries >= 1

\* download_file (lines 52-83) entering _download_with_retry: with
\* max_retries = 0 the loop body never runs (lines 138, 264-266)
download_file ==
    /\ tpc = "called"
    /\ events' = <<>>
    /\ last_error' = NoError
    /\ resume_position' = 0
    /\ mode' = "wb"
    /\ progress' = 0
    /\ next_byte' = 0
    /\ IF LoopRuns
       THEN /\ attempt' = 1
            /\ tpc' = "attempt"
            /\ UNCHANGED result
       ELSE /\ attempt' = 0
            /\ tpc' = "returned"
            /\ result' = Returned(FALSE, 0, <<"Max retries exceeded", "", 0>>)
    /\ UNCHANGED <<fs, size, accept_ranges, range_capable, output_path, resume,
                   max_retries, observed, errors_left>>

\* One attempt from its start to the opened destination file (lines 139-191).
Attempt ==
    /\ tpc = "attempt"
    /\ \E headOk \in BOOLEAN :
       LET position == IF resume /\ can_resume(output_path, TRUE, headOk, headOk)
                       THEN get_resume_position(output_path) ELSE 0
           range == RangeHeader(position)
           requested == Append(events, Event("GET", IF headOk THEN "" ELSE "HEAD failed",
                                             range, attempt))
           total == size[output_path[1]]
           \* the first byte the response delivers; beyond the resource's
           \* end the server answers 416 and raise_for_status raises
           partial == range >= 0 /\ range_capable
           first == IF partial THEN range + 1 ELSE 1
       IN
       \* a HEAD request is sent, and can fail, only for a valid partial file
       /\ headOk \/ (resume /\ validate_partial(output_path, TRUE))
       /\ resume_position' = position
       /\ mode' = ModeFor(position)
       /\ \/ \* the GET fails
             /\ errors_left > 0
             /\ \E e \in GetErrors : Handle(e, fs, requested, position)
             /\ errors_left' = errors_left - 1
             /\ UNCHANGED <<progress, next_byte>>
          \/ \* 416 Range Not Satisfiable
             /\ partial /\ range >= total
             /\ Handle("requests.HTTPError", fs, requested, position)
             /\ UNCHANGED <<progress, next_byte, errors_left>>
          \/ \* the response is good, and reading it or opening the file fails
             /\ ~(partial /\ range >= total)
             /\ errors_left > 0
             /\ \E e \in OpenErrors : Handle(e, fs, requested, position)
             /\ errors_left' = errors_left - 1
             /\ UNCHANGED <<progress, next_byte>>
          \/ \* the destination is open
             /\ ~(partial /\ range >= total)
             /\ fs' = Open(fs, output_path, ModeFor(position))
             /\ events' = requested
             /\ progress' = position
             /\ next_byte' = first
             /\ tpc' = "streaming"
             /\ UNCHANGED <<attempt, last_error, result, errors_left>>
    /\ UNCHANGED <<size, accept_ranges, range_capable, output_path, resume,
                   max_retries, observed>>

\* one chunk of the response (lines 193-213); a chunk is one byte here.  The
\* progress callback is called when 0.2 s have passed since the last call or
\* the offset has reached the total size (line 205); it sends the observer a
\* 'downloading' event for the mod (downloader.py:145-150).
Chunk ==
    /\ tpc = "streaming"
    /\ next_byte <= size[output_path[1]]
    /\ LET written == [fs EXCEPT ![output_path] =
                          File(Append(fs[output_path].data, next_byte))]
           notified == Notify(observed, "downloading", output_path[1])
       IN
       \/ \* iter_content or file.write raises
          /\ errors_left > 0
          /\ \E e \in StreamErrors : Handle(e, fs, events, progress)
          /\ errors_left' = errors_left - 1
          /\ UNCHANGED <<progress, next_byte, observed>>
       \/ \* the chunk is written and the callback is not due
          /\ progress + 1 < size[output_path[1]]
          /\ fs' = written
          /\ progress' = progress + 1
          /\ next_byte' = next_byte + 1
          /\ UNCHANGED <<tpc, attempt, last_error, result, events, observed,
                         errors_left>>
       \/ \* the chunk is written and the callback returns
          /\ fs' = written
          /\ progress' = progress + 1
          /\ next_byte' = next_byte + 1
          /\ observed' = notified
          /\ UNCHANGED <<tpc, attempt, last_error, result, events, errors_left>>
       \/ \* the chunk is written and the callback raises
          /\ errors_left > 0
          /\ \E e \in CallbackErrors : Handle(e, written, events, progress + 1)
          /\ progress' = progress + 1
          /\ next_byte' = next_byte + 1
          /\ observed' = notified
          /\ errors_left' = errors_left - 1
    /\ UNCHANGED <<size, accept_ranges, range_capable, output_path, resume,
                   max_retries, resume_position, mode>>

\* the response is exhausted: line 216, then download_file lines 87-100,
\* where os.path.getsize either gives the size of the file or raises, and
\* the exception leaves download_file
Complete ==
    /\ tpc = "streaming"
    /\ next_byte > size[output_path[1]]
    /\ \/ /\ tpc' = "returned"
          /\ result' = Returned(TRUE, Len(fs[output_path].data), NoError)
          /\ UNCHANGED <<last_error, errors_left>>
       \/ /\ errors_left > 0
          /\ tpc' = "raised"
          /\ last_error' = Message("OSError", attempt)
          /\ errors_left' = errors_left - 1
          /\ UNCHANGED result
    /\ UNCHANGED <<fs, size, accept_ranges, range_capable, output_path, resume,
                   max_retries, attempt, resume_position, mode, progress,
                   next_byte, events, observed>>

\* no transfer has been asked for
TransferIdle ==
    /\ tpc = "idle"
    /\ output_path = FinalPath("A")
    /\ resume = TRUE
    /\ attempt = 0
    /\ resume_position = 0
    /\ mode = "wb"
    /\ progress = 0
    /\ next_byte = 0
    /\ last_error = NoError
    /\ result = Returned(FALSE, 0, NoError)
    /\ events = <<>>
    /\ observed = <<>>

(***************************************************************************)
(* CoreDownloader.download_mod (core/downloader.py:79-196)                 *)
(***************************************************************************)
VARIABLES
    opc,             \* "idle", "loop", "transfer", "plan", "returned", "raised"
    calls,           \* download_mod calls made so far
    index,           \* position of the loop of lines 124-170 in download_list
    downloaded_mods, \* CoreDownloader.downloaded_mods
    downloaded,      \* local list downloaded
    failed,          \* local list failed
    total_size,      \* local total_size
    skipped,         \* file names this call found already on disk (lines 135-139)
    dresult,         \* the DownloadResult the call returned
    caught           \* the exception the handler of lines 183-196 caught

ovars == <<opc, calls, index, downloaded_mods, downloaded, failed, total_size,
           skipped, dresult, caught>>

vars == <<rvars, fs, tvars, ovars>>

\* the lists get_download_list can return: no name twice, none reserved
DownloadLists ==
    {[k \in 1..Len(l) |-> ModInfo(l[k], DepUrl(l[k]))] : l \in ListsOver(FileNames, MaxList)}

\* os.path.exists(file_path), line 135
FileExists(file_path) == fs[file_path].exists

\* line 125 (every mod has one published version here)
FileNameOf(mod_info) == mod_info.name

\* DownloadResult (lines 17-25)
DownloadResult(success, downloaded_list, failed_list, size_sum) ==
    [success |-> success, downloaded_mods |-> downloaded_list,
     failed_mods |-> failed_list, total_size |-> size_sum]

NoResult == DownloadResult(FALSE, <<>>, <<>>, 0)

\* mutant of AddSize: the sum is replaced, not added to
AddSizeLast(total, file_size) == file_size

\* line 162
AddSize(total, file_size) == total + file_size

\* mutant of ErrorOrUnknown: the message is dropped
ErrorOrUnknownEmpty(error) == NoError

\* line 167: result.error or "Unknown error"
ErrorOrUnknown(error) ==
    IF error = NoError THEN <<"Unknown error", "", 0>> ELSE error

\* mutant of the success flag of line 173
SuccessAlways == TRUE

\* line 173
Success == failed = <<>>

\* mutant of Except: the handler adds no entry to failed_mods
ExceptNoEntry(e, obs, left, dl, fl, ts) ==
    /\ observed' = Notify(obs, "error", PageName(mod_url))
    /\ caught' = Message(e, 0)
    /\ \/ /\ opc' = "returned"
          /\ dresult' = DownloadResult(FALSE, dl, fl, ts)
          /\ errors_left' = left
       \/ /\ left > 0
          /\ opc' = "raised"
          /\ errors_left' = left - 1
          /\ UNCHANGED dresult

\* The handler of lines 183-196 for the exception of class e: obs is what
\* the observer has been sent, left the failures the environment may still
\* cause, dl, fl and ts the values of downloaded, failed and total_size.  The
\* observer is sent an 'error' event naming the requested mod; when it raises,
\* its exception leaves download_mod.
Except(e, obs, left, dl, fl, ts) ==
    LET root == PageName(mod_url) IN
    /\ observed' = Notify(obs, "error", root)
    /\ caught' = Message(e, 0)
    /\ \/ /\ opc' = "returned"
          /\ dresult' = DownloadResult(FALSE, dl, Append(fl, <<root, Message(e, 0)>>), ts)
          /\ errors_left' = left
       \/ /\ left > 0
          /\ opc' = "raised"
          /\ errors_left' = left - 1
          /\ UNCHANGED dresult

\* mutant of Entry: the list is gone through from its end
EntryReversed(k) == download_list[Len(download_list) + 1 - k]

\* line 124: the entry of the k-th iteration of the loop
Entry(k) == download_list[k]

\* an empty download list reported as a failure
EmptyListResultFailure == DownloadResult(FALSE, <<>>, <<>>, 0)

\* lines 108-116: the result for an empty download list
EmptyListResult == DownloadResult(TRUE, <<>>, <<>>, 0)

\* lines 79-122: a call of download_mod up to the loop.  fresh: the call is
\* made on a new CoreDownloader; raises: resolve_dependencies raises.
DownloadMod(raises) ==
    /\ opc \in {"idle", "returned", "raised"}
    /\ calls < MaxCalls
    /\ calls' = calls + 1
    /\ \E fresh \in BOOLEAN :
         downloaded_mods' = IF fresh THEN {} ELSE downloaded_mods
    /\ downloaded' = <<>>
    /\ failed' = <<>>
    /\ total_size' = 0
    /\ skipped' = {}
    /\ index' = 1
    /\ LET announced == Notify(<<>>, "analyzing", PageName(mod_url)) IN
       \/ \* the observer raises on 'analyzing' (line 96)
          /\ errors_left > 0
          /\ Except("Exception", announced, errors_left - 1, <<>>, <<>>, 0)
       \/ \* resolve_dependencies raises (lines 100-103)
          /\ raises
          /\ errors_left > 0
          /\ Except("NetworkError", announced, errors_left - 1, <<>>, <<>>, 0)
       \/ \* lines 108-116
          /\ ~raises
          /\ download_list = <<>>
          /\ observed' = announced
          /\ opc' = "returned"
          /\ dresult' = EmptyListResult
          /\ caught' = NoError
          /\ UNCHANGED errors_left
       \/ /\ ~raises
          /\ download_list # <<>>
          /\ observed' = announced
          /\ opc' = "loop"
          /\ caught' = NoError
          /\ UNCHANGED <<dresult, errors_left>>
    /\ UNCHANGED <<rvars, fs, size, accept_ranges, range_capable, tpc, output_path,
                   resume, max_retries, attempt, resume_position, mode, progress,
                   next_byte, last_error, result, events>>

\* download_mod for a requested mod whose resolution is not followed step by
\* step: it raises or yields download_list
download_mod == \E raises \in BOOLEAN : DownloadMod(raises)

\* a loop that takes its next entry while download_file is running
BetweenEntriesOrDuring == opc \in {"loop", "transfer"}

\* line 124: the loop takes its next entry when the body has ended for the
\* entry before (download_file is called at line 152 and waited for)
BetweenEntries == opc = "loop"

\* lines 124-157: one entry of the list, up to the call of download_file
NextMod ==
    /\ BetweenEntries
    /\ index <= Len(download_list)
    /\ LET mod_info == Entry(index)
           file_name == FileNameOf(mod_info)
           file_path == FinalPath(file_name)
       IN
       IF file_name \in downloaded_mods
       THEN \* lines 128-130
            /\ index' = index + 1
            /\ UNCHANGED <<opc, downloaded_mods, downloaded, skipped, tpc,
                           output_path, resume>>
       ELSE IF FileExists(file_path)
       THEN \* lines 135-139
            /\ downloaded_mods' = downloaded_mods \cup {file_name}
            /\ downloaded' = Append(downloaded, file_name)
            /\ skipped' = skipped \cup {file_name}
            /\ index' = index + 1
            /\ UNCHANGED <<opc, tpc, output_path, resume>>
       ELSE \* lines 152-157
            /\ opc' = "transfer"
            /\ tpc' = "called"
            /\ output_path' = file_path
            /\ resume' = TRUE
            /\ UNCHANGED <<index, downloaded_mods, downloaded, skipped>>
    /\ UNCHANGED <<rvars, fs, size, accept_ranges, range_capable, max_retries,
                   attempt, resume_position, mode, progress, next_byte, last_error,
                   result, events, observed, errors_left, calls, failed, total_size,
                   dresult, caught>>

\* download_file has returned or raised: its locals are gone
TransferOver ==
    /\ tpc' = "idle"
    /\ attempt' = 0
    /\ resume_position' = 0
    /\ mode' = "wb"
    /\ progress' = 0
    /\ next_byte' = 0
    /\ last_error' = NoError
    /\ result' = Returned(FALSE, 0, NoError)
    /\ events' = <<>>

\* lines 159-170: the result of download_file for the entry and the terminal
\* event sent to the observer, which returns or raises
TransferDone ==
    /\ opc = "transfer"
    /\ tpc = "returned"
    /\ TransferOver
    /\ LET mod_info == Entry(index)
           file_name == FileNameOf(mod_info)
           ok == result.success
           dl == IF ok THEN Append(downloaded, file_name) ELSE downloaded
           fl == IF ok THEN failed
                 ELSE Append(failed, <<mod_info.name, ErrorOrUnknown(result.error)>>)
           ts == IF ok THEN AddSize(total_size, result.size) ELSE total_size
           told == Notify(observed, IF ok THEN "complete" ELSE "error", mod_info.name)
       IN
       /\ downloaded_mods' = IF ok THEN downloaded_mods \cup {file_name}
                             ELSE downloaded_mods
       /\ downloaded' = dl
       /\ failed' = fl
       /\ total_size' = ts
       /\ \/ \* the observer returns
             /\ observed' = told
             /\ index' = index + 1
             /\ opc' = "loop"
             /\ UNCHANGED <<dresult, caught, errors_left>>
          \/ \* the observer raises (lines 165, 170)
             /\ errors_left > 0
             /\ Except("Exception", told, errors_left - 1, dl, fl, ts)
             /\ UNCHANGED index
    /\ UNCHANGED <<rvars, fs, size, accept_ranges, range_capable, output_path,
                   resume, max_retries, calls, skipped>>

\* download_file has raised (file_downloader.py:88): lines 183-196
TransferRaised ==
    /\ opc = "transfer"
    /\ tpc = "raised"
    /\ TransferOver
    /\ Except(last_error[2], observed, errors_left, downloaded, failed, total_size)
    /\ UNCHANGED <<rvars, fs, size, accept_ranges, range_capable, output_path,
                   resume, max_retries, calls, index, downloaded_mods, downloaded,
                   failed, total_size, skipped>>

\* lines 172-181: the loop is over and the DownloadResult is returned
ReturnResult ==
    /\ opc = "loop"
    /\ index > Len(download_list)
    /\ opc' = "returned"
    /\ dresult' = DownloadResult(Success, downloaded, failed, total_size)
    /\ UNCHANGED <<rvars, fs, tvars, calls, index, downloaded_mods, downloaded,
                   failed, total_size, skipped, caught>>

\* download_mod has not been called
OrchIdle ==
    /\ opc = "idle"
    /\ calls = 0
    /\ index = 1
    /\ downloaded_mods = {}
    /\ downloaded = <<>>
    /\ failed = <<>>
    /\ total_size = 0
    /\ skipped = {}
    /\ dresult = NoResult
    /\ caught = NoError

\* the resolver has not been called
ResolverIdle ==
    /\ rpc = "idle"
    /\ analyzed_mods = {}
    /\ stack = <<>>
    /\ tree = None
    /\ listed = FALSE
    /\ shown = {}
    /\ depsOf = [n \in Names |-> <<>>]
    /\ failedUrls = {}
    /\ failedDeps = {}
    /\ steps = 0
    /\ fetched = NoFetch

\* the command line of a plain download: resume is on by default
\* (cli/parser.py:454-466), optional dependencies are left out
DefaultArgs == [resume |-> TRUE, include_optional |-> FALSE]

\* no RecoveryManager method has been called from outside a transfer
NoCall == [op |-> "none"]

\* a plain run: default options, no page shows an optional dependency, nobody
\* asks to stop
PlainRun ==
    /\ args = DefaultArgs
    /\ optsOf = [n \in Names |-> <<>>]
    /\ cancelled = FALSE
    /\ rm = NoCall
    /\ OthersIdle

\* the remote storage: every resource has the same number of bytes
Storage(total) ==
    /\ size = [n \in FileNames |-> total]
    /\ accept_ranges \in {"bytes", "none", ""}
    /\ range_capable \in BOOLEAN

\* a storage that serves ranges and says so, whose resources differ in size
SizedStorage ==
    /\ size = [n \in FileNames |-> IF n = "A" THEN MaxSize ELSE 1]
    /\ accept_ranges = "bytes"
    /\ range_capable = TRUE

\* a storage that serves ranges and says so
RangeStorage(total) ==
    /\ size = [n \in FileNames |-> total]
    /\ accept_ranges = "bytes"
    /\ range_capable = TRUE

NoFiles == [p \in Paths |-> Absent]

(***************************************************************************)
(* Specifications                                                          *)
(***************************************************************************)
\* dependency resolution alone
InitResolve ==
    /\ ResolverIdle
    /\ PlainRun
    /\ mod_url \in {u \in Urls : PageName(u) \in {"A"} \cup RESERVED_DEPENDENCIES}
    /\ download_list = <<>>
    /\ fs = NoFiles
    /\ RangeStorage(1)
    /\ max_retries = 0
    /\ errors_left = 0
    /\ TransferIdle
    /\ OrchIdle

NextResolve ==
    \/ resolve_dependencies /\ UNCHANGED <<fs, tvars, ovars>>
    \/ ResolveDependency /\ UNCHANGED <<fs, tvars, ovars>>
    \/ ReturnTree /\ UNCHANGED <<fs, tvars, ovars>>
    \/ GetDownloadList /\ UNCHANGED <<fs, tvars, ovars>>

SpecResolve == InitResolve /\ [][NextResolve]_vars

\* one call of download_file, for the artifact of mod A: the destination may
\* hold a file already, and so may its partial path
InitTransfer ==
    /\ ResolverIdle
    /\ PlainRun
    /\ mod_url = DepUrl("A")
    /\ download_list = <<>>
    /\ OrchIdle
    /\ \E total \in 1..MaxSize :
         /\ Storage(total)
         /\ \E part \in {Absent} \cup {File(Resource(k)) : k \in 0..total},
               final \in {Absent, File(Resource(1))} :
              fs = [p \in Paths |->
                      IF p = _get_partial_path(FinalPath("A")) THEN part
                      ELSE IF p = FinalPath("A") THEN final
                      ELSE Absent]
    /\ max_retries \in 0..MaxRetries
    /\ errors_left = MaxRetries
    /\ tpc = "called"
    /\ output_path = FinalPath("A")
    /\ resume \in BOOLEAN
    /\ attempt = 0
    /\ resume_position = 0
    /\ mode = "wb"
    /\ progress = 0
    /\ next_byte = 0
    /\ last_error = NoError
    /\ result = Returned(FALSE, 0, NoError)
    /\ events = <<>>
    /\ observed = <<>>

NextTransfer ==
    \/ download_file /\ UNCHANGED <<rvars, ovars>>
    \/ Attempt /\ UNCHANGED <<rvars, ovars>>
    \/ Chunk /\ UNCHANGED <<rvars, ovars>>
    \/ Complete /\ UNCHANGED <<rvars, ovars>>

SpecTransfer == InitTransfer /\ [][NextTransfer]_vars

\* download_mod called up to MaxCalls times for one requested mod, whose
\* resolution yields download_list: the list of mod A ends with A, that of a
\* reserved mod is empty.  At first every artifact is complete on disk or
\* absent, and there is no partial file (nothing creates one).
InitDownload ==
    /\ ResolverIdle
    /\ PlainRun
    /\ \/ /\ mod_url = DepUrl("A")
          /\ download_list \in {l \in DownloadLists :
                                   l # <<>> /\ l[Len(l)].name = "A"}
       \/ /\ mod_url \in {DepUrl(n) : n \in RESERVED_DEPENDENCIES}
          /\ download_list = <<>>
    /\ SizedStorage
    /\ fs \in {[p \in Paths |-> IF p[2] = "" /\ p[1] \in present
                               THEN File(Resource(size[p[1]])) ELSE Absent] :
               present \in SUBSET {download_list[k].name : k \in 1..Len(download_list)}}
    /\ max_retries = MaxRetries
    /\ errors_left = MaxErrors
    /\ TransferIdle
    /\ OrchIdle

NextDownload ==
    \/ download_mod
    \/ NextMod
    \/ TransferDone
    \/ TransferRaised
    \/ ReturnResult
    \/ download_file /\ UNCHANGED <<rvars, ovars>>
    \/ Attempt /\ UNCHANGED <<rvars, ovars>>
    \/ Chunk /\ UNCHANGED <<rvars, ovars>>
    \/ Complete /\ UNCHANGED <<rvars, ovars>>

SpecDownload == InitDownload /\ [][NextDownload]_vars

\* the dependency lists the pages of A, B and C show
Catalog(a, b, c) ==
    [n \in Names |-> CASE n = "A" -> a [] n = "B" -> b [] n = "C" -> c
                        [] OTHER -> <<>>]

\* catalogs for the runs that go from resolution to transfer: a dependency
\* shared by two mods (listed before or after the mod that shares it), a
\* chain, cycles of two and of three mods, a reserved dependency, a single
\* dependency
Catalogs ==
    {Catalog(<<"B", "C">>, <<"C">>, <<>>),
     Catalog(<<"B">>, <<>>, <<>>),
     Catalog(<<"C", "B">>, <<"C">>, <<>>),
     Catalog(<<"B">>, <<"C">>, <<>>),
     Catalog(<<"B">>, <<"A">>, <<>>),
     Catalog(<<"B">>, <<"C">>, <<"A">>),
     Catalog(<<"B", "space-age">>, <<>>, <<>>)}

\* the command lines of the download command as far as resume is concerned:
\* with and without --no-resume (cli/parser.py:454-466)
ResumeArgs == {[resume |-> b, include_optional |-> FALSE] : b \in BOOLEAN}

\* the output directory is empty, or holds one byte of the artifact of A in
\* the partial file of its destination
PartialFiles ==
    {NoFiles,
     [NoFiles EXCEPT ![_get_partial_path(FinalPath("A"))] = File(Resource(1))]}

\* one call of download_mod on a new CoreDownloader made by the download
\* command, from the resolution of the requested mod to the result, over a
\* catalog known from the start: no artifact is on disk, every transfer is
\* attempted once, and one failure can happen while the list is gone through
InitPipeline ==
    /\ rpc = "idle"
    /\ analyzed_mods = {}
    /\ stack = <<>>
    /\ tree = None
    /\ listed = FALSE
    /\ shown = Names \ RESERVED_DEPENDENCIES
    /\ depsOf \in Catalogs
    /\ failedUrls = {}
    /\ failedDeps = {}
    /\ steps = 0
    /\ fetched = NoFetch
    /\ args \in ResumeArgs
    /\ optsOf = [n \in Names |-> <<>>]
    /\ cancelled = FALSE
    /\ rm = NoCall
    /\ OthersIdle
    /\ mod_url \in {u \in Urls : PageName(u) \in {"A"} \cup RESERVED_DEPENDENCIES}
    /\ download_list = <<>>
    /\ fs \in PartialFiles
    /\ SizedStorage
    /\ max_retries = 1
    /\ errors_left = 1
    /\ TransferIdle
    /\ OrchIdle

\* lines 100-106 of download_mod, once the resolver has raised or the list
\* has been made
ResolvedDownload ==
    /\ calls = 0
    /\ rpc = "raised" \/ listed
    /\ DownloadMod(rpc = "raised")

NextPipeline ==
    \/ resolve_dependencies /\ UNCHANGED <<fs, tvars, ovars>>
    \/ ResolveDependency /\ UNCHANGED <<fs, tvars, ovars>>
    \/ ReturnTree /\ UNCHANGED <<fs, tvars, ovars>>
    \/ GetDownloadList /\ UNCHANGED <<fs, tvars, ovars>>
    \/ ResolvedDownload
    \/ NextMod
    \/ TransferDone
    \/ TransferRaised
    \/ ReturnResult
    \/ download_file /\ UNCHANGED <<rvars, ovars>>
    \/ Attempt /\ UNCHANGED <<rvars, ovars>>
    \/ Chunk /\ UNCHANGED <<rvars, ovars>>
    \/ Complete /\ UNCHANGED <<rvars, ovars>>

SpecPipeline == InitPipeline /\ [][NextPipeline]_vars

\* the optional dependencies the pages show: none; C for the requested mod;
\* C for its dependency B
OptionalCatalogs ==
    {Catalog(<<>>, <<>>, <<>>),
     Catalog(<<"C">>, <<>>, <<>>),
     Catalog(<<>>, <<"C">>, <<>>)}

\* the URLs get_download_plan is called with
PlanUrls == {<<BASE_FACTORIO_MOD_URL, "A">>, DepUrl("A"), DepUrl("space-age")}

\* get_download_plan (downloader.py:198-241) up to the end of the first
\* _resolve_recursive step: resolve_dependencies clears the visited set and
\* enters the requested URL
get_download_plan ==
    /\ opc \in {"idle", "returned", "raised"}
    /\ calls < MaxCalls
    /\ calls' = calls + 1
    /\ opc' = "plan"
    /\ download_list' = <<>>
    /\ listed' = FALSE
    /\ \E u \in PlanUrls :
         /\ mod_url' = u
         /\ \E a \in Answers(PageName(u)) :
               Enter(u, <<>>, a.pageOk, a.l, a.depOk, Cleared(analyzed_mods), NoFetch)
    /\ UNCHANGED <<env, fs, tvars, index, downloaded_mods, downloaded, failed,
                   total_size, skipped, dresult, caught>>

\* a get_download_plan that enters the planned mods in the registry
PlanReturnRegistering ==
    /\ opc = "plan"
    /\ rpc = "done"
    /\ download_list' = get_download_list(tree)
    /\ listed' = TRUE
    /\ opc' = "returned"
    /\ downloaded_mods' = downloaded_mods \cup
                            {get_download_list(tree)[k].name :
                                k \in 1..Len(get_download_list(tree))}
    /\ UNCHANGED <<rpc, mod_url, analyzed_mods, stack, tree, shown, depsOf,
                   failedUrls, failedDeps, steps, fetched, env, fs, tvars,
                   calls, index, downloaded, failed, total_size,
                   skipped, dresult, caught>>

\* lines 219-241: the tree is flattened and the plan returned, or the
\* exception of the resolution is logged and raised again
PlanReturn ==
    /\ opc = "plan"
    /\ rpc \in {"done", "raised"}
    /\ IF rpc = "done"
       THEN /\ download_list' = get_download_list(tree)
            /\ listed' = TRUE
            /\ opc' = "returned"
       ELSE /\ opc' = "raised"
            /\ UNCHANGED <<download_list, listed>>
    /\ UNCHANGED <<rpc, mod_url, analyzed_mods, stack, tree, shown, depsOf,
                   failedUrls, failedDeps, steps, fetched, env, fs, tvars,
                   calls, index, downloaded_mods, downloaded, failed, total_size,
                   skipped, dresult, caught>>

\* get_download_plan called up to MaxCalls times on a CoreDownloader whose
\* registry and output directory are empty or as a download of B has left
\* them, with or without include_optional, over a catalog known from the
\* start
InitPlan ==
    /\ rpc = "idle"
    /\ analyzed_mods = {}
    /\ stack = <<>>
    /\ tree = None
    /\ listed = FALSE
    /\ shown = Names \ RESERVED_DEPENDENCIES
    /\ depsOf \in Catalogs
    /\ failedUrls = {}
    /\ failedDeps = {}
    /\ steps = 0
    /\ fetched = NoFetch
    /\ args \in {[resume |-> TRUE, include_optional |-> b] : b \in BOOLEAN}
    /\ optsOf \in OptionalCatalogs
    /\ cancelled = FALSE
    /\ rm = NoCall
    /\ OthersIdle
    /\ mod_url = DepUrl("A")
    /\ download_list = <<>>
    /\ SizedStorage
    /\ max_retries = 1
    /\ errors_left = 0
    /\ TransferIdle
    /\ opc = "idle"
    /\ calls = 0
    /\ index = 1
    /\ downloaded = <<>>
    /\ failed = <<>>
    /\ total_size = 0
    /\ skipped = {}
    /\ dresult = NoResult
    /\ caught = NoError
    /\ \E present \in {{}, {"B"}} :
         /\ downloaded_mods = present
         /\ fs = [p \in Paths |-> IF p[2] = "" /\ p[1] \in present
                                  THEN File(Resource(size[p[1]])) ELSE Absent]

NextPlan ==
    \/ get_download_plan
    \/ ResolveDependency /\ UNCHANGED <<fs, tvars, ovars>>
    \/ ReturnTree /\ UNCHANGED <<fs, tvars, ovars>>
    \/ PlanReturn

SpecPlan == InitPlan /\ [][NextPlan]_vars

\* The caller of download_file wants the transfer stopped.  download_file
\* takes url, output_path, progress_callback and resume
\* (file_downloader.py:52-58): the request reaches no variable the transfer
\* reads.
Cancel ==
    /\ tpc \in {"called", "attempt", "streaming"}
    /\ ~cancelled
    /\ cancelled' = TRUE
    /\ UNCHANGED <<rpc, mod_url, analyzed_mods, stack, tree, download_list, listed,
                   shown, depsOf, failedUrls, failedDeps, steps, fetched,
                   args, optsOf, others, rm, fs, tvars, ovars>>

\* one call of download_file with resume set, during which the caller may ask
\* for the transfer to stop
InitCancel ==
    /\ InitTransfer
    /\ resume
    /\ max_retries >= 1

NextCancel ==
    \/ download_file /\ UNCHANGED <<rvars, ovars>>
    \/ Attempt /\ UNCHANGED <<rvars, ovars>>
    \/ Chunk /\ UNCHANGED <<rvars, ovars>>
    \/ Complete /\ UNCHANGED <<rvars, ovars>>
    \/ Cancel

SpecCancel == InitCancel /\ [][NextCancel]_vars

\* the RecoveryManager alone: can_resume and finalize_download called, in any
\* order, for the artifact of mod A, whose partial file and destination may
\* each be absent or hold some bytes, against a storage whose HEAD response
\* carries any of the header values
InitRecovery ==
    /\ ResolverIdle
    /\ PlainRun
    /\ mod_url = DepUrl("A")
    /\ download_list = <<>>
    /\ OrchIdle
    /\ size = [n \in FileNames |-> MaxSize]
    /\ accept_ranges \in HeaderValues
    /\ range_capable \in BOOLEAN
    /\ \E part \in {Absent} \cup {File(Resource(k)) : k \in 0..MaxSize},
          final \in {Absent, File(Resource(1))} :
         fs = [p \in Paths |->
                 IF p = _get_partial_path(FinalPath("A")) THEN part
                 ELSE IF p = FinalPath("A") THEN final
                 ELSE Absent]
    /\ max_retries = 0
    /\ errors_left = 0
    /\ TransferIdle

\* the variables a RecoveryManager call leaves alone
Untouched ==
    UNCHANGED <<rpc, mod_url, analyzed_mods, stack, tree, download_list, listed,
                shown, depsOf, failedUrls, failedDeps, steps, fetched,
                args, optsOf, others, cancelled, tvars, ovars>>

NextRecovery ==
    \/ CanResume /\ Untouched
    \/ FinalizeDownload /\ Untouched

SpecRecovery == InitRecovery /\ [][NextRecovery]_vars

(***************************************************************************)
(* The dependency graph as the catalog has shown it.                       *)
(***************************************************************************)
DepSet(n) == IF n \in shown THEN {depsOf[n][k] : k \in 1..Len(depsOf[n])} ELSE {}

RECURSIVE Closure(_, _)
Closure(S, k) ==
    IF k = 0 THEN S ELSE Closure(S \cup UNION {DepSet(n) : n \in S}, k - 1)

\* the names n reaches over one or more dependency edges
Reaches(n) == Closure(DepSet(n), Cardinality(Names))

OnCycle(n) == n \in Reaches(n)

Acyclic == \A n \in Names : ~OnCycle(n)

AllPagesResolve == failedUrls = {} /\ failedDeps = {}

ListNames == {download_list[i].name : i \in 1..Len(download_list)}

Occurrences(n) == Cardinality({i \in 1..Len(download_list) : download_list[i].name = n})

Position(n) == CHOOSE i \in 1..Len(download_list) : download_list[i].name = n

\* the most steps a resolution takes: the root call, then for each call (one
\* per URL: the requested one and one per name) an iteration per listed
\* dependency and a return, then the flattening
StepBound == (Cardinality(Names) + 1) * (MaxDeps + 1) + 2

(***************************************************************************)
(* Claims                                                                  *)
(***************************************************************************)

\* C1: for an acyclic graph whose pages all resolve, every dependency of a
\* listed mod (other than a reserved one, which is never listed) is in the
\* download list at an earlier position than the mod.
C1_DependenciesFirst ==
    (listed /\ Acyclic /\ AllPagesResolve) =>
        \A m \in ListNames : \A d \in DepSet(m) \ RESERVED_DEPENDENCIES :
            d \in ListNames /\ Position(d) < Position(m)

\* C1 witness: A requires B and C, B requires C, and the list is C, B, A.
C1_Witness ==
    /\ listed /\ Acyclic /\ AllPagesResolve
    /\ depsOf["A"] = <<"B", "C">> /\ depsOf["B"] = <<"C">>
    /\ Len(download_list) = 3
    /\ download_list[1].name = "C" /\ download_list[3].name = "A"

\* C2: the resolution of a graph with a cycle ends (every analyzed URL costs
\* at most an iteration per listed dependency and a return, no more URLs are
\* analyzed than the requested one and one per name, so it never takes more
\* than StepBound steps; and it is never stuck before it has returned), and
\* the download list then holds each name on a cycle exactly once.
C2_CycleTerminates ==
    /\ steps <= Cardinality(analyzed_mods) * (MaxDeps + 1) + 2
    /\ Cardinality(analyzed_mods) <= Cardinality(Names) + 1
    /\ steps <= StepBound
    /\ (rpc \in {"idle", "resolving"} \/ (rpc = "done" /\ ~listed)) => ENABLED NextResolve
    /\ listed => \A n \in Names : OnCycle(n) => Occurrences(n) = 1

\* C2 witness: A requires B, B requires A, both are listed.
C2_Witness ==
    /\ listed
    /\ depsOf["A"] = <<"B">> /\ depsOf["B"] = <<"A">>
    /\ {"A", "B"} \subseteq shown
    /\ OnCycle("A") /\ OnCycle("B")
    /\ ListNames = {"A", "B"}

\* C3: the download list holds no name twice and no reserved name.
C3_NoDuplicateNoReserved ==
    listed =>
        /\ \A n \in Names : Occurrences(n) <= 1
        /\ ListNames \cap RESERVED_DEPENDENCIES = {}

\* C3 witness: a mod is reached twice (the requested URL and the URL its
\* dependent lists differ) and a reserved mod is a dependency.
C3_Witness ==
    /\ listed
    /\ mod_url = <<BASE_FACTORIO_MOD_URL, "A">>
    /\ DepUrl("A") \in analyzed_mods /\ DepUrl("A") \notin failedUrls
    /\ DepUrl("space-age") \in analyzed_mods /\ DepUrl("space-age") \notin failedUrls
    /\ "A" \in ListNames

(***************************************************************************)
(* The events of a transfer.                                               *)
(***************************************************************************)
Gets == {i \in 1..Len(events) : events[i].ev = "GET"}

Errors == {i \in 1..Len(events) : events[i].ev = "error"}

Sleeps == {i \in 1..Len(events) : events[i].ev = "sleep"}

\* every attempt made so far has failed with a Network-classified error
EveryAttemptFailedNetwork ==
    /\ Cardinality(Errors) = Cardinality(Gets)
    /\ \A i \in Errors : categorize_error(events[i].kind) = NETWORK

\* the last failure of the transfer
LastError == events[CHOOSE i \in Errors : \A j \in Errors : j <= i]

\* the first GET after event i, 0 if there is none
NextGet(i) ==
    IF \E j \in Gets : j > i
    THEN CHOOSE j \in Gets : j > i /\ \A k \in Gets : k > i => j <= k
    ELSE 0

\* the partial file of the destination
PartialFile == fs[_get_partial_path(output_path)]

\* the Recovery Manager's conditions for reporting the destination resumable
\* to the attempt that issued the GET get: a partial file with bytes in it,
\* a HEAD request that is answered, and a source that serves ranges
Resumable(get) ==
    /\ PartialFile.exists
    /\ Len(PartialFile.data) > 0
    /\ get.kind # "HEAD failed"
    /\ \/ accept_ranges = "bytes"
       \/ accept_ranges = "" /\ range_capable

\* the file at path holds the whole resource
IsComplete(path) == fs[path].exists /\ fs[path].data = Resource(size[path[1]])

(***************************************************************************)
(* Claims about one transfer                                               *)
(***************************************************************************)
\* C4: a transfer never issues more than max_retries GET requests; when
\* every attempt has failed with a Network-classified error and the transfer
\* has returned, it has issued exactly max_retries of them, the result is a
\* failure, and its error is the message of the last attempt's error.
C4_NetworkRetries ==
    /\ Cardinality(Gets) <= max_retries
    /\ (tpc = "returned" /\ max_retries >= 1 /\ EveryAttemptFailedNetwork) =>
          /\ Cardinality(Gets) = max_retries
          /\ ~result.success
          /\ LastError.n = max_retries
          /\ result.error = Message(LastError.kind, LastError.n)

C4_Witness ==
    /\ tpc = "returned"
    /\ max_retries = 2
    /\ EveryAttemptFailedNetwork
    /\ Cardinality(Gets) = 2
    /\ events[2].kind = "requests.ConnectionError"
    /\ result.error = Message("requests.Timeout", 2)

\* C5: whenever an attempt fails with a Network-classified error and another
\* attempt follows, a sleep of retry_delay lies between the failure and the
\* next attempt's GET.
C5_SleepBetweenAttempts ==
    \A i \in Errors :
        (categorize_error(events[i].kind) = NETWORK /\ NextGet(i) # 0) =>
            \E j \in Sleeps : i < j /\ j < NextGet(i) /\ events[j].n = retry_delay

\* C6: a failure classified Filesystem or Validation is the last thing that
\* happens in a transfer: no sleep and no GET follows it, and the transfer
\* has returned a failure.
C6_FailFast ==
    \A i \in Errors :
        categorize_error(events[i].kind) \in {FILESYSTEM, VALIDATION} =>
            /\ i = Len(events)
            /\ tpc = "returned"
            /\ ~result.success

C6_Witness ==
    /\ max_retries = 2
    /\ Cardinality(Gets) = 1
    /\ events[Len(events)].ev = "error"
    /\ events[Len(events)].kind = "FileSystemError"
    /\ tpc = "returned"

\* C7: the GET of an attempt carries a range that starts at the length N of
\* the partial file when resume is set and the Recovery Manager reports the
\* destination resumable, and no range otherwise; an attempt whose GET has
\* no range starts at offset 0 and writes the destination from its start.
\* (No step of a transfer changes the partial file, so its length now is its
\* length at the time of the GET.)
C7_RangeStartsAtPartial ==
    /\ \A i \in Gets :
          events[i].n = IF resume /\ Resumable(events[i])
                        THEN Len(PartialFile.data) ELSE -1
    /\ (tpc = "streaming" /\ events[Len(events)].n = -1) =>
          /\ resume_position = 0
          /\ mode = "wb"
          /\ fs[output_path].data = Resource(progress)

C7_Witness ==
    /\ tpc = "streaming"
    /\ resume
    /\ fs[output_path].exists
    /\ Len(PartialFile.data) = 1
    /\ size[output_path[1]] = 2
    /\ events = <<Event("GET", "", 1, 1)>>

\* C8: with resume set and a source that serves ranges, when an attempt that
\* has written bytes and reached offset k fails with a retryable error, the
\* GET of the next attempt carries a range that starts at k.
C8_ResumeFromWritten ==
    \A i \in Errors :
        (/\ resume
         /\ range_capable
         /\ accept_ranges # "none"
         /\ is_retryable_error(events[i].kind)
         /\ events[i].at > 0
         /\ events[i].at > events[i - 1].n
         /\ NextGet(i) # 0
         /\ events[NextGet(i)].kind # "HEAD failed") =>
            events[NextGet(i)].n = events[i].at

\* C9: a step of a transfer that advances the offset leaves the bytes up to
\* that offset in the partial file, and the file of the final name comes into
\* existence only in the step that ends the transfer with success, holding
\* what the partial file held, which is then gone.
C9_PartialUntilSuccess ==
    [][/\ progress' > progress =>
            /\ fs'[_get_partial_path(output_path)].exists
            /\ Len(fs'[_get_partial_path(output_path)].data) = progress'
       /\ (~fs[output_path].exists /\ fs'[output_path].exists) =>
            /\ tpc' = "returned"
            /\ result'.success
            /\ fs'[output_path].data = PartialFile.data
            /\ ~fs'[_get_partial_path(output_path)].exists]_vars

(***************************************************************************)
(* Claims about download_mod                                               *)
(***************************************************************************)
\* C10: a file that download_mod finds on disk and reports as already
\* downloaded is a complete artifact, never what a failed transfer left.
C10_LeftoverNotComplete ==
    \A n \in skipped : IsComplete(FinalPath(n))

(***************************************************************************)
(* Claims about partial resolution                                         *)
(***************************************************************************)
\* the mods whose page loaded: analyzed, not failed, not reserved
Resolved ==
    {PageName(u) : u \in analyzed_mods \ failedUrls} \ RESERVED_DEPENDENCIES

\* C15: when the page of a dependency (not of the root) cannot be fetched or
\* parsed, resolve_dependencies returns a tree; the failed mod is not in the
\* download list (unless it is the root, reached through its other URL), no
\* mod is listed whose page was never loaded, every dependency a loaded page
\* shows has been analyzed (the siblings of the failed one included), and the
\* root and every other mod whose page loaded are in the download list.
C15_PartialTree ==
    (listed /\ failedUrls # {} /\ mod_url \notin failedUrls) =>
        /\ rpc = "done"
        /\ ~tree.isNone
        /\ \A u \in failedUrls :
              PageName(u) \in ListNames => PageName(u) = PageName(mod_url)
        /\ \A m \in shown : \A d \in DepSet(m) : DepUrl(d) \in analyzed_mods
        /\ ListNames = Resolved
        /\ PageName(mod_url) \in ListNames

C15_Witness ==
    /\ listed
    /\ depsOf["A"] = <<"B", "C">>
    /\ failedUrls = {DepUrl("B")}
    /\ Len(download_list) = 2
    /\ download_list[1].name = "C"
    /\ download_list[2].name = "A"

(***************************************************************************)
(* Claims about the classifier                                             *)
(***************************************************************************)
\* C20: for every exception a transfer hands to the classifier,
\* is_retryable_error is true exactly when categorize_error is Network or
\* Parsing (and so false exactly when it is Validation or Filesystem).
C20_RetryableIffCategory ==
    \A i \in Errors :
        is_retryable_error(events[i].kind) <=>
            categorize_error(events[i].kind) \in {NETWORK, PARSING}

(***************************************************************************)
(* Claims about the result of download_mod                                 *)
(***************************************************************************)
\* the entries of a sequence
Range(seq) == {seq[k] : k \in 1..Len(seq)}

\* the mod names of the entries of failed_mods
FailedNames(failed_list) == {failed_list[k][1] : k \in 1..Len(failed_list)}

\* the entry the loop of lines 124-170 is at
Current == Entry(index)

\* the call has returned from line 175: the handler has not run
ReturnedFromLoop == opc = "returned" /\ download_list # <<>> /\ caught = NoError

\* entries passed over at lines 128-130: in self.downloaded_mods and not in
\* the list downloaded of this call
PassedOver == (ListNames \cap downloaded_mods) \ Range(downloaded)

\* the mods this call transferred with success
Fresh(result_downloaded) == Range(result_downloaded) \ skipped

RECURSIVE SumOfSizes(_)
SumOfSizes(S) ==
    IF S = {} THEN 0
    ELSE LET n == CHOOSE x \in S : TRUE IN size[n] + SumOfSizes(S \ {n})

RECURSIVE SumOfFiles(_)
SumOfFiles(S) ==
    IF S = {} THEN 0
    ELSE LET n == CHOOSE x \in S : TRUE
         IN  Len(fs[FinalPath(n)].data) + SumOfFiles(S \ {n})

\* C11: in a second or later call of download_mod, the step that handles an
\* entry whose final artifact is on disk lists the mod in downloaded (from
\* which the result's downloaded_mods is built), leaves total_size as it is
\* and starts no transfer, so that no GET is issued for it.
C11_PresentReported ==
    [][(/\ calls >= 2
        /\ opc = "loop"
        /\ index <= Len(download_list)
        /\ IsComplete(FinalPath(FileNameOf(Current)))) =>
           /\ FileNameOf(Current) \in Range(downloaded')
           /\ total_size' = total_size
           /\ tpc' = "idle"
           /\ events' = events]_vars

\* C12: when download_mod returns from its loop, every entry has been
\* handled; if none was passed over as downloaded by an earlier call, the
\* n entries are split between downloaded_mods and failed_mods (n - k and k),
\* the mods of failed_mods are k different ones and none of them is in
\* downloaded_mods, each carries a non-empty message, success is k = 0, and
\* the artifact of every mod of downloaded_mods is on disk.
C12_PartialSuccess ==
    ReturnedFromLoop =>
        /\ index = Len(download_list) + 1
        /\ dresult.downloaded_mods = downloaded
        /\ dresult.failed_mods = failed
        /\ PassedOver = {} =>
              Len(downloaded) = Len(download_list) - Len(failed)
        /\ Cardinality(FailedNames(failed)) = Len(failed)
        /\ FailedNames(failed) \cap Range(downloaded) = {}
        /\ \A k \in 1..Len(failed) : failed[k][2] # NoError
        /\ dresult.success = (Len(failed) = 0)
        /\ \A n \in Range(downloaded) : FileExists(FinalPath(n))

\* C12 witness: of two mods the first fails after its retries and the second
\* is transferred.
C12_Witness ==
    /\ ReturnedFromLoop
    /\ Len(download_list) = 2
    /\ dresult.failed_mods # <<>>
    /\ dresult.failed_mods[1][1] = download_list[1].name
    /\ dresult.downloaded_mods = <<download_list[2].name>>
    /\ skipped = {}
    /\ ~dresult.success

\* C13: every DownloadResult download_mod returns has success = TRUE exactly
\* when its failed_mods is empty.
C13_SuccessIffNoFailure ==
    opc = "returned" => (dresult.success <=> dresult.failed_mods = <<>>)

\* C13 witness: the loop has ended with a failed mod in the result.
C13_Witness ==
    /\ ReturnedFromLoop
    /\ Len(dresult.failed_mods) = 1
    /\ Len(dresult.downloaded_mods) = 1
    /\ ~dresult.success

C16_EveryEntryHandled ==
    [][(opc \in {"loop", "transfer"} /\ opc' \in {"returned", "raised"}) =>
          index' >= Len(download_list)]_vars

\* C18: the total_size of a returned DownloadResult is the sum of the sizes
\* of the artifacts this call transferred with success, which are the sizes
\* of the resources; skipped and failed mods add nothing.
C18_TotalSize ==
    opc = "returned" =>
        /\ dresult.total_size = SumOfFiles(Fresh(dresult.downloaded_mods))
        /\ dresult.total_size = SumOfSizes(Fresh(dresult.downloaded_mods))

\* C18 witness: two mods of different sizes are transferred.
C18_Witness ==
    /\ ReturnedFromLoop
    /\ dresult.success
    /\ Len(dresult.downloaded_mods) = 2
    /\ skipped = {}
    /\ dresult.total_size = MaxSize + 1

\* the events the observer has been sent that name mod m
EventsOf(m) == SelectSeq(observed, LAMBDA x : x.name = m)

\* C19: when download_mod returns from its loop, the events naming a mod of
\* the download list are an 'analyzing' event, then, unless the mod was
\* skipped as already present, its 'downloading' events (kept as one entry)
\* if any, then one terminal event: 'complete' if the mod is in
\* downloaded_mods and 'error' otherwise.
C19_PerModEvents ==
    ReturnedFromLoop =>
        \A m \in ListNames :
            LET evs == EventsOf(m)
                terminal == Notice(IF m \in Range(downloaded) THEN "complete"
                                   ELSE "error", m)
            IN  IF m \in skipped
                THEN evs = <<Notice("analyzing", m)>>
                ELSE \/ evs = <<Notice("analyzing", m), terminal>>
                     \/ evs = <<Notice("analyzing", m), Notice("downloading", m),
                                terminal>>

(***************************************************************************)
(* Claims about the order of the transfers                                 *)
(***************************************************************************)
\* the entries the loop has dealt with: transferred, failed or skipped
Handled == {download_list[k].name : k \in 1..(index - 1)}

\* the dependencies of the mod whose transfer has been started are all dealt
\* with, as far as they are in the download list
DependenciesHandled ==
    opc = "transfer" =>
        \A d \in DepSet(Current.name) \cap ListNames :
            /\ d \in Handled
            /\ d \in Range(downloaded) \cup FailedNames(failed)

ParsingFailures == {i \in Errors : categorize_error(events[i].kind) = PARSING}

\* C21: in a transfer that has returned, the first failure classified
\* Parsing is followed by one more attempt, and a later one by none.
C21_ParsingRetriedOnce ==
    tpc = "returned" =>
        \A i \in ParsingFailures :
            IF \A j \in ParsingFailures : i <= j
            THEN NextGet(i) # 0
            ELSE NextGet(i) = 0

\* C24: without resume, every GET of the transfer is without a Range header,
\* and a transfer that has returned a failure after a retryable error that
\* struck when part of the file was written has left no file at the
\* destination.
C24_DiscardedWithoutResume ==
    ~resume =>
        /\ \A i \in Gets : events[i].n = -1
        /\ (/\ tpc = "returned"
            /\ ~result.success
            /\ Errors # {}
            /\ is_retryable_error(LastError.kind)
            /\ LastError.at > 0) => ~fs[output_path].exists

\* C25: once the caller has asked for the transfer to stop, a transfer that
\* is streaming writes nothing more: its next step leaves every file as it
\* is and ends the transfer.
C25_StopsWhenCancelled ==
    [][(cancelled /\ tpc = "streaming") =>
           (fs' = fs /\ tpc' \in {"returned", "raised"})]_vars

(***************************************************************************)
(* Claims about the RecoveryManager                                        *)
(***************************************************************************)
\* the partial file of the destination a RecoveryManager call was made for
PartialOf(call) == call.before[_get_partial_path(call.path)]

\* C22: can_resume returns true exactly when the partial file exists, is not
\* empty and can be read, the HEAD request is answered, and either its
\* Accept-Ranges header is bytes or the header is not none and the trial
\* request for bytes 0-0 is answered with 206 (header values are compared
\* without regard to case).
C22_CanResume ==
    rm.op = "can_resume" =>
        rm.value =
            (/\ PartialOf(rm).exists
             /\ Len(PartialOf(rm).data) > 0
             /\ rm.readOk
             /\ rm.headOk
             /\ \/ accept_ranges \in {"bytes", "Bytes"}
                \/ /\ accept_ranges \notin {"none", "None"}
                   /\ rm.trialOk
                   /\ range_capable)

\* C22 witness: no Accept-Ranges header, the trial request is answered 206
\* and can_resume returns true for a partial file of one byte.
C22_Witness ==
    /\ rm.op = "can_resume"
    /\ rm.value
    /\ accept_ranges = ""
    /\ Len(PartialOf(rm).data) = 1

\* C23: after finalize_download has returned the final path holds what the
\* partial file held and the partial path is gone; after it has raised, a
\* final file that was there before the call is there unchanged.
C23_FinalizeAtomic ==
    rm.op = "finalize_download" =>
        IF rm.value
        THEN /\ fs[rm.path] = PartialOf(rm)
             /\ ~fs[_get_partial_path(rm.path)].exists
        ELSE rm.before[rm.path].exists => fs[rm.path] = rm.before[rm.path]

(***************************************************************************)
(* Claims about the scheduling of the transfers                            *)
(***************************************************************************)
\* C26: download_file is called only when no call of it is in progress, and
\* while one is in progress the loop stays at the same entry of the list and
\* the same destination.
C26_OneTransferAtATime ==
    [][/\ (tpc' = "called" /\ tpc # "called") => (tpc = "idle" /\ opc = "loop")
       /\ (tpc # "idle" /\ tpc' # "idle") =>
              (index' = index /\ output_path' = output_path)]_vars

\* C26 witness: the transfer of the second entry is started after that of
\* the first has returned a failure.
C26_Witness ==
    /\ tpc = "called"
    /\ index = 2
    /\ skipped = {}
    /\ Len(failed) = 1

(***************************************************************************)
(* Claims about resolution and planning                                    *)
(***************************************************************************)
\* the URLs of the nodes of a tree, one entry per node
RECURSIVE NodeUrlsAll(_)
NodeUrls(t) ==
    IF t.isNone THEN <<>> ELSE <<t.root.url>> \o NodeUrlsAll(t.dependencies)

NodeUrlsAll(nodes) ==
    IF nodes = <<>> THEN <<>>
    ELSE NodeUrls(Head(nodes)) \o NodeUrlsAll(Tail(nodes))

\* no entry of the sequence occurs twice
NoRepeat(seq) == \A i, j \in 1..Len(seq) : seq[i] = seq[j] => i = j

\* C27: in every call no URL is loaded twice, whether its page loaded or
\* not; the visited set holds the URLs loaded in this call and no other, so
\* that the requested URL is loaded in every call; and the tree returned has
\* one node at most for a URL.
C27_NoUrlTwice ==
    /\ fetched.again = {}
    /\ analyzed_mods = fetched.once
    /\ opc = "plan" => mod_url \in fetched.once
    /\ rpc = "done" =>
          /\ NoRepeat(NodeUrls(tree))
          /\ Range(NodeUrls(tree)) \subseteq fetched.once

\* C27 witness: the second call, for A which requires B and C while B
\* requires C, has ended; the page of C failed when B asked for it and was
\* not loaded again for A.
C27_Witness ==
    /\ calls = 2
    /\ opc = "returned"
    /\ depsOf["A"] = <<"B", "C">>
    /\ depsOf["B"] = <<"C">>
    /\ DepUrl("C") \in failedUrls
    /\ DepUrl("C") \in fetched.once
    /\ ListNames = {"A", "B"}

\* C28: no step of get_download_plan changes a file or the registry
\* downloaded_mods, and download_file is not called.
C28_PlanOnlyResolves ==
    [][(opc = "plan" \/ opc' = "plan") =>
           /\ fs' = fs
           /\ downloaded_mods' = downloaded_mods
           /\ tpc = "idle" /\ tpc' = "idle"
           /\ events' = events]_vars

\* C28 witness: the plan of three mods has been returned by a CoreDownloader
\* that has the artifact of B on disk and in its registry.
C28_Witness ==
    /\ opc = "returned"
    /\ calls >= 1
    /\ Len(download_list) = 3
    /\ downloaded_mods = {"B"}
    /\ FileExists(FinalPath("B"))

\* the optional dependencies the page of n shows
OptSet(n) == {optsOf[n][k] : k \in 1..Len(optsOf[n])}

\* the requested mod, its optional dependencies, and what these require
WithOptionalOfRequested ==
    LET base == {PageName(mod_url)} \cup OptSet(PageName(mod_url))
    IN  Closure(base, Cardinality(Names))

\* C30: with include_optional the download list holds the requested mod, its
\* required dependencies, its own optional dependencies and the required
\* dependencies of those, and nothing else.
C30_OptionalOfRequestedOnly ==
    (listed /\ args.include_optional) => ListNames \subseteq WithOptionalOfRequested

(***************************************************************************)
(* Claims about the options of the download command                        *)
(***************************************************************************)
\* C29: in a run of the download command with --no-resume, no GET of any
\* transfer carries a Range header.
C29_NoResumeNoRange ==
    ~args.resume => \A i \in Gets : events[i].n = -1

(***************************************************************************)
(* Claims about the content of the destination and about the attempts      *)
(***************************************************************************)
\* C32: whenever a transfer returns success against a source of total size
\* T, the destination file holds exactly the T bytes of the resource, in
\* order, also when the transfer resumed from a partial file and when the
\* server answered the ranged request with the full content.
C32_SuccessHoldsResource ==
    (tpc = "returned" /\ result.success) => IsComplete(output_path)

\* C33: a GET answered with an HTTP error status ends the transfer: the
\* failure is the last event (no sleep and no GET follows it), the transfer
\* has returned a failure, and the message starts with 'Filesystem error:'.
C33_HttpErrorIsFilesystem ==
    \A i \in Errors :
        events[i].kind = "requests.HTTPError" =>
            /\ i = Len(events)
            /\ tpc = "returned"
            /\ ~result.success
            /\ result.error = <<"Filesystem error: ", "requests.HTTPError", events[i].n>>
            /\ attempt = events[i].n

C33_Witness ==
    /\ tpc = "returned"
    /\ max_retries = 2
    /\ events = <<Event("GET", "", -1, 1), Event("error", "requests.HTTPError", 1, 0)>>
    /\ result.error[1] = "Filesystem error: "

\* C34: with max_retries = 0 a transfer issues no request and returns
\* failure with the message 'Max retries exceeded'; with max_retries >= 1 a
\* transfer that is over has issued at least one GET.
C34_ZeroRetriesNoRequest ==
    /\ max_retries = 0 => Gets = {}
    /\ tpc \in {"returned", "raised"} =>
          IF max_retries = 0
          THEN /\ ~result.success
               /\ result.error = <<"Max retries exceeded", "", 0>>
          ELSE Gets # {}

C34_Witness ==
    /\ tpc = "returned"
    /\ max_retries = 0
    /\ events = <<>>
    /\ result = Returned(FALSE, 0, <<"Max retries exceeded", "", 0>>)

(***************************************************************************)
(* Claims about a run from resolution to result                            *)
(***************************************************************************)
\* the subtrees of a tree
RECURSIVE SubtreesAll(_)
Subtrees(t) ==
    IF t.isNone THEN {} ELSE {t} \cup SubtreesAll(t.dependencies)

SubtreesAll(nodes) ==
    IF nodes = <<>> THEN {}
    ELSE Subtrees(Head(nodes)) \cup SubtreesAll(Tail(nodes))

\* C35: a mod whose dependency list could not be fetched is treated as a
\* mod without dependencies, the requested mod included: the resolution does
\* not raise, the tree has a node without dependencies for the mod, the mod
\* is in the download list, and when nothing fails in the transfers the
\* result is a success that lists the mod as downloaded and has no failed
\* entry.
C35_FailedListingIsNoDependencies ==
    \A n \in failedDeps :
        /\ rpc # "raised"
        /\ rpc = "done" =>
              \E t \in Subtrees(tree) : t.root.name = n /\ t.dependencies = <<>>
        /\ listed => n \in ListNames
        /\ (opc = "returned" /\ errors_left = 1) =>
              /\ dresult.success
              /\ dresult.failed_mods = <<>>
              /\ n \in Range(dresult.downloaded_mods)

C35_Witness ==
    /\ failedDeps = {"A"}
    /\ depsOf["A"] = <<"B">>
    /\ mod_url = DepUrl("A")
    /\ opc = "returned"
    /\ dresult = DownloadResult(TRUE, <<"A">>, <<>>, MaxSize)

\* C36: when the page of the requested mod loads and its name is reserved,
\* the resolution ends without a tree, the download list is empty, no
\* dependency list is fetched (none can have failed), no transfer is started
\* and no file is touched; and when the observer does not raise, download_mod
\* returns success with no downloaded mod, no failed mod and total size 0.
C36_ReservedRoot ==
    (IsReserved(PageName(mod_url)) /\ mod_url \notin failedUrls) =>
        /\ failedDeps = {}
        /\ stack = <<>>
        /\ tree = None
        /\ download_list = <<>>
        /\ tpc = "idle"
        /\ events = <<>>
        /\ fs \in PartialFiles
        /\ (opc = "returned" /\ errors_left = 1) => dresult = DownloadResult(TRUE, <<>>, <<>>, 0)

C36_Witness ==
    /\ PageName(mod_url) = "space-age"
    /\ analyzed_mods = {mod_url}
    /\ failedUrls = {}
    /\ listed
    /\ opc = "returned"
    /\ dresult.success
    /\ observed = <<Notice("analyzing", "space-age")>>

(***************************************************************************)
(* The other entry points.  While one of them runs, the resolver, the      *)
(* transfer and download_mod of the sections above are idle.               *)
(***************************************************************************)
core == <<rpc, mod_url, analyzed_mods, stack, tree, download_list, listed,
          shown, depsOf, failedUrls, failedDeps, steps, fetched,
          args, optsOf, cancelled, rm, fs, tvars, ovars>>

CoreIdle ==
    /\ ResolverIdle
    /\ args = DefaultArgs
    /\ optsOf = [n \in Names |-> <<>>]
    /\ cancelled = FALSE
    /\ rm = NoCall
    /\ mod_url = DepUrl("A")
    /\ download_list = <<>>
    /\ fs = NoFiles
    /\ RangeStorage(1)
    /\ max_retries = 0
    /\ errors_left = 0
    /\ TransferIdle
    /\ OrchIdle

(***************************************************************************)
(* The chunk size of a response (file_downloader.py:158-173)               *)
(***************************************************************************)
\* how far around each threshold the declared sizes are taken
MaxDelta == 100

\* line 171: 64 KB
min_chunk == 64 * 1024

\* line 172: 4 MB
max_chunk == 4 * 1024 * 1024

Max(a, b) == IF a >= b THEN a ELSE b

Min(a, b) == IF a <= b THEN a ELSE b

\* a chunk size without the ceiling
block_sizeNoCeiling(total) ==
    IF total # 0 THEN Max(min_chunk, total \div 100) ELSE min_chunk

\* line 173
block_size(total) ==
    IF total # 0
    THEN Max(min_chunk, Min(total \div 100, max_chunk))
    ELSE min_chunk

\* the total sizes a response declares (lines 159-168): unknown (0) and
\* small ones, and those around the sizes whose hundredth is the floor, the
\* ceiling and twice the ceiling
DeclaredSizes ==
    (0..(2 * MaxDelta))
    \cup UNION {{100 * c + d : d \in (-MaxDelta)..MaxDelta} :
                  c \in {min_chunk, max_chunk, 2 * max_chunk}}

\* lines 158-173 of one attempt: the total size is read off the response
\* and the chunk size is determined
DetermineChunkSize ==
    /\ block.pc = "response"
    /\ block' = [block EXCEPT !.pc = "sized", !.block_size = block_size(block.total_size)]
    /\ UNCHANGED <<core, batch, aio, gui>>

InitChunk ==
    /\ CoreIdle
    /\ batch = [pc |-> "none"]
    /\ aio = [pc |-> "none"]
    /\ gui = [pc |-> "none"]
    /\ \E t \in DeclaredSizes :
          block = [pc |-> "response", total_size |-> t, block_size |-> 0]

NextChunk == DetermineChunkSize

SpecChunk == InitChunk /\ [][NextChunk]_vars

\* C37: the chunk size is 64 KiB when the declared total size T is 0, and
\* otherwise the hundredth of T rounded down, raised to 64 KiB when it is
\* below and lowered to 4 MiB when it is above; it is never below 64 KiB nor
\* above 4 MiB.
C37_ChunkSize ==
    block.pc = "sized" =>
        LET T == block.total_size
            b == block.block_size
        IN  /\ b >= 65536
            /\ b <= 4194304
            /\ T = 0 => b = 65536
            /\ (T > 0 /\ T < 6553600) => b = 65536
            /\ (T >= 6553600 /\ T < 419430400) => (100 * b <= T /\ T < 100 * b + 100)
            /\ T >= 419430400 => b = 4194304

C37_Witness ==
    /\ block.pc = "sized"
    /\ block.total_size = 6553700
    /\ block.block_size = 65537

(***************************************************************************)
(* CLIApp.download_batch (cli/app.py:379-590)                              *)
(***************************************************************************)
\* the longest batch file
MaxBatch == 3

\* the URLs a batch file names
BatchUrls == {DepUrl(n) : n \in FileNames}

\* the batch files: every list of at most MaxBatch URLs
BatchFiles == UNION {[1..n -> BatchUrls] : n \in 0..MaxBatch}

\* lines 464-469: the loop over urls with the set seen
RECURSIVE Deduplicate(_, _)
Deduplicate(urls, unique) ==
    IF urls = <<>> THEN unique
    ELSE Deduplicate(Tail(urls),
                     IF Head(urls) \in Range(unique) THEN unique
                     ELSE Append(unique, Head(urls)))

\* a list that keeps its duplicates
unique_urlsAll(urls) == urls

\* lines 463-469
unique_urls(urls) == Deduplicate(urls, <<>>)

\* what download_mod does for one URL of the batch: it returns a result
\* that is a success or not (downloader.py:172-196), or the construction of
\* the CoreDownloader or the call raises (app.py:534)
BatchOutcomes == {"success", "failure", "raised"}

\* lines 379-487: the file is read and its URLs are deduplicated; a file
\* without URLs ends the command with exit code 1 (lines 471-473)
download_batch ==
    /\ batch.pc = "called"
    /\ LET unique == unique_urls(batch.urls) IN
       batch' = IF unique = <<>>
                THEN [batch EXCEPT !.pc = "returned", !.exit_code = 1]
                ELSE [batch EXCEPT !.pc = "loop", !.unique_urls = unique, !.i = 1]
    /\ UNCHANGED <<core, block, aio, gui>>

\* lines 489-546: one iteration of the loop over unique_urls; the loop is
\* left at lines 529-531 and 540-542
BatchDownload ==
    /\ batch.pc = "loop"
    /\ batch.i <= Len(batch.unique_urls)
    /\ \E outcome \in BatchOutcomes :
         LET url == batch.unique_urls[batch.i]
             counted ==
                [batch EXCEPT
                   !.attempted = Append(@, url),
                   !.results = Append(@, outcome),
                   !.successful_downloads = IF outcome = "success" THEN @ + 1 ELSE @,
                   !.failed_downloads = IF outcome = "success" THEN @ ELSE @ + 1]
         IN  batch' = IF outcome # "success" /\ ~batch.continue_on_error
                      THEN [counted EXCEPT !.pc = "summary"]
                      ELSE [counted EXCEPT !.i = @ + 1]
    /\ UNCHANGED <<core, block, aio, gui>>

\* lines 548-590: the summary and the exit code
BatchSummary ==
    /\ \/ batch.pc = "summary"
       \/ batch.pc = "loop" /\ batch.i > Len(batch.unique_urls)
    /\ batch' = [batch EXCEPT !.pc = "returned",
                              !.exit_code = IF batch.failed_downloads > 0 THEN 1 ELSE 0]
    /\ UNCHANGED <<core, block, aio, gui>>

InitBatch ==
    /\ CoreIdle
    /\ block = [pc |-> "none"]
    /\ aio = [pc |-> "none"]
    /\ gui = [pc |-> "none"]
    /\ \E file \in BatchFiles, flag \in BOOLEAN :
          batch = [pc |-> "called", urls |-> file, continue_on_error |-> flag,
                   unique_urls |-> <<>>, i |-> 0, attempted |-> <<>>,
                   results |-> <<>>, successful_downloads |-> 0,
                   failed_downloads |-> 0, exit_code |-> 0]

NextBatch ==
    \/ download_batch
    \/ BatchDownload
    \/ BatchSummary

SpecBatch == InitBatch /\ [][NextBatch]_vars

\* the places of the batch file where a URL occurs for the first time
FirstOccurrences ==
    {k \in 1..Len(batch.urls) : \A j \in 1..(k - 1) : batch.urls[j] # batch.urls[k]}

\* the place of the n-th URL that occurs for the first time
FirstOccurrence(n) ==
    CHOOSE k \in FirstOccurrences : Cardinality({j \in FirstOccurrences : j <= k}) = n

\* C31: in batch mode no URL is attempted twice and the URLs attempted are
\* the distinct URLs of the file in the order of their first occurrence, up
\* to where the run is; without --continue-on-error nothing is attempted
\* after an attempt whose result is not a success, and every URL is attempted
\* when all results are successes; with --continue-on-error every distinct URL
\* has been attempted when the loop is over.
C31_BatchOrder ==
    batch.pc # "called" =>
        /\ NoRepeat(batch.attempted)
        /\ Len(batch.attempted) <= Cardinality(FirstOccurrences)
        /\ \A n \in 1..Len(batch.attempted) :
              batch.attempted[n] = batch.urls[FirstOccurrence(n)]
        /\ ~batch.continue_on_error =>
              \A n \in 1..(Len(batch.attempted) - 1) : batch.results[n] = "success"
        /\ (batch.pc = "returned" /\
            (batch.continue_on_error \/ \A n \in 1..Len(batch.results) : batch.results[n] = "success")) =>
              Len(batch.attempted) = Cardinality(FirstOccurrences)

C31_Witness ==
    /\ batch.pc = "returned"
    /\ ~batch.continue_on_error
    /\ batch.urls = <<DepUrl("B"), DepUrl("B"), DepUrl("A")>>
    /\ batch.attempted = <<DepUrl("B")>>
    /\ batch.results = <<"failure">>
    /\ batch.exit_code = 1

(***************************************************************************)
(* The asyncio ModDownloader (mod_downloader/mod_downloader.py).  A task   *)
(* is one call of download_mod_with_dependencies; a step of a task runs    *)
(* from one await to the next.                                             *)
(***************************************************************************)
\* line 41
_max_concurrent == 10

\* the permits of self._semaphore, the semaphore "for controlling concurrent
\* operations" of lines 39-41 that download_mod_with_dependencies enters at
\* line 356
SemaphorePermits == _max_concurrent

\* the mods of the catalogs of this section
AioMods == 1..(_max_concurrent + 1)

\* the required dependencies the pages show (lines 317-328): a chain of
\* three mods and one of _max_concurrent + 1, a mod with three dependencies,
\* and two mods that share a dependency
AioCatalogs ==
    {[m \in AioMods |-> IF m < 3 THEN <<m + 1>> ELSE <<>>],
     [m \in AioMods |-> IF m < _max_concurrent + 1 THEN <<m + 1>> ELSE <<>>],
     [m \in AioMods |-> IF m = 1 THEN <<2, 3, 4>> ELSE <<>>],
     [m \in AioMods |-> CASE m = 1 -> <<2, 3>> [] m \in {2, 3} -> <<4>> [] OTHER -> <<>>]}

\* a task: the mod of its URL, where it is, and the tasks it waits for
Task(mod) == [mod |-> mod, pc |-> "acquire", children |-> {}]

\* the task has returned or raised
Over(task) == task.pc \in {"done", "raised"}

\* lines 390-405 for task t, with the set downloaded_mods as it is then:
\* the task returns when the mod has no dependencies (line 396), and
\* otherwise makes one task per dependency and waits for them all
Dependencies(t, registry) ==
    LET dependencies == aio.deps[aio.tasks[t].mod]
        n == Len(aio.tasks)
        made == [k \in 1..Len(dependencies) |-> Task(dependencies[k])]
    IN  IF dependencies = <<>>
        THEN [aio EXCEPT !.tasks[t].pc = "done",
                         !.permits = @ + 1,
                         !.downloaded_mods = registry]
        ELSE [aio EXCEPT !.tasks = [@ EXCEPT ![t].pc = "gather",
                                             ![t].children = (n + 1)..(n + Len(dependencies))]
                                   \o made,
                         !.downloaded_mods = registry]

\* line 356: the task takes a permit, then awaits the page (line 357)
AioAcquire(t) ==
    /\ aio.tasks[t].pc = "acquire"
    /\ aio.permits > 0
    /\ aio' = [aio EXCEPT !.tasks[t].pc = "page", !.permits = @ - 1]
    /\ UNCHANGED <<core, block, batch, gui>>

\* lines 357-388 and, when the file is in downloaded_mods, 390-405: the page
\* has come, or loading or reading it raises and the exception leaves the
\* task (the permit is given back by the async with)
AioPage(t) ==
    /\ aio.tasks[t].pc = "page"
    /\ \/ /\ aio.faults > 0
          /\ aio' = [aio EXCEPT !.tasks[t].pc = "raised", !.permits = @ + 1,
                                !.faults = @ - 1]
       \/ LET file_name == aio.tasks[t].mod IN
          IF file_name \notin aio.downloaded_mods
          THEN \* lines 380-382: download_file is awaited
               aio' = [aio EXCEPT !.tasks[t].pc = "download",
                                  !.started = Append(@, file_name)]
          ELSE \* lines 384-388
               aio' = Dependencies(t, aio.downloaded_mods)
    /\ UNCHANGED <<core, block, batch, gui>>

\* lines 382-405: download_file has returned and the file name is added to
\* downloaded_mods, or it has raised (line 284, 290-292)
AioDownloaded(t) ==
    /\ aio.tasks[t].pc = "download"
    /\ \/ /\ aio.faults > 0
          /\ aio' = [aio EXCEPT !.tasks[t].pc = "raised", !.permits = @ + 1,
                                !.faults = @ - 1]
       \/ aio' = Dependencies(t, aio.downloaded_mods \cup {aio.tasks[t].mod})
    /\ UNCHANGED <<core, block, batch, gui>>

\* line 405: every task of the dependencies is over (their exceptions are
\* returned, not raised); the task returns and gives its permit back
AioGathered(t) ==
    /\ aio.tasks[t].pc = "gather"
    /\ \A c \in aio.tasks[t].children : Over(aio.tasks[c])
    /\ aio' = [aio EXCEPT !.tasks[t].pc = "done", !.permits = @ + 1]
    /\ UNCHANGED <<core, block, batch, gui>>

\* lines 59-60 of run: the call for the requested mod is over
AioRun ==
    /\ aio.pc = "run"
    /\ Over(aio.tasks[1])
    /\ aio' = [aio EXCEPT !.pc = IF aio.tasks[1].pc = "done" THEN "announced" ELSE "raised"]
    /\ UNCHANGED <<core, block, batch, gui>>

InitAsync ==
    /\ CoreIdle
    /\ block = [pc |-> "none"]
    /\ batch = [pc |-> "none"]
    /\ gui = [pc |-> "none"]
    /\ \E catalog \in AioCatalogs, faults \in 0..MaxFailures :
          aio = [pc |-> "run", deps |-> catalog, permits |-> SemaphorePermits,
                 tasks |-> <<Task(1)>>, downloaded_mods |-> {}, started |-> <<>>,
                 faults |-> faults]

NextAsync ==
    \/ \E t \in 1..Len(aio.tasks) : AioAcquire(t)
    \/ \E t \in 1..Len(aio.tasks) : AioPage(t)
    \/ \E t \in 1..Len(aio.tasks) : AioDownloaded(t)
    \/ \E t \in 1..Len(aio.tasks) : AioGathered(t)
    \/ AioRun

SpecAsync == InitAsync /\ [][NextAsync]_vars

\* C38: the tasks never deadlock on the semaphore: as long as the call for
\* the requested mod is not over, some task can take a step.
C38_NoSemaphoreDeadlock ==
    aio.pc = "run" => ENABLED NextAsync

\* C39: no file is downloaded twice in a run: the downloads started are for
\* different files.
C39_OneDownloadPerFile ==
    NoRepeat(aio.started)

(***************************************************************************)
(* The thread-based ModDownloader of the GUI                               *)
(* (downloader/mod_downloader.py).  run and download_mod_with_dependencies *)
(* are steps of the downloader's thread; every file has a thread of its    *)
(* own that runs _download.                                                *)
(***************************************************************************)
\* line 311
GuiMaxRetries == 3

\* line 438: the file name of a mod (every mod has one version here)
GuiFileName(mod_name) ==
    CASE mod_name = "A" -> "A_1.0.zip"
      [] mod_name = "B" -> "B_1.0.zip"
      [] mod_name = "C" -> "C_1.0.zip"
      [] OTHER -> "space-age_1.0.zip"

\* lines 307-392: a download thread, started at its first attempt
DownloadThread(file_name) == [file_name |-> file_name, attempt |-> 1, state |-> "running"]

\* Thread.is_alive (line 70)
IsAlive(thread) == thread.state = "running"

\* the innermost active call returns to its caller
GuiReturn(g, below) ==
    IF below = <<>>
    THEN [g EXCEPT !.pc = "collect", !.stack = <<>>]
    ELSE [g EXCEPT !.stack = [below EXCEPT ![Len(below)].i = @ + 1]]

\* download_mod_with_dependencies (lines 394-470) for the mod at url up to
\* its first recursive call; below: the calls that are active; pageOk: the
\* page loads and shows name and version (otherwise lines 415-417 raise and
\* line 469 catches); depOk: the dependency page loads (otherwise line 276
\* or 296 returns [])
GuiCall(url, below, pageOk, depOk) ==
    LET mod_name == PageName(url)
        file_name == GuiFileName(mod_name)
        dependencies == IF depOk THEN [k \in 1..Len(gui.deps[mod_name]) |->
                                         <<gui.deps[mod_name][k], DepUrl(gui.deps[mod_name][k])>>]
                        ELSE <<>>
        faulted == [gui EXCEPT !.faults = IF pageOk /\ depOk THEN @ ELSE @ - 1]
    IN
    IF ~pageOk THEN GuiReturn(faulted, below)
    ELSE IF mod_name \in {"space-age"} THEN GuiReturn(faulted, below)      \* lines 424-428
    ELSE LET started ==
                 IF file_name \notin gui.downloaded_mods
                 THEN \* lines 444-447 and 390-392
                      [faulted EXCEPT
                         !.analyzed_mods = @ \cup {url},
                         !.downloaded_mods = @ \cup {file_name},
                         !.download_threads = Append(@, DownloadThread(file_name))]
                 ELSE [faulted EXCEPT !.analyzed_mods = @ \cup {url}]
         IN  IF dependencies = <<>>
             THEN GuiReturn(started, below)                                 \* lines 455-457
             ELSE [started EXCEPT
                     !.pc = "analyzing",
                     !.stack = Append(below, [mod_name |-> mod_name,
                                              dependencies |-> dependencies, i |-> 1])]

\* what the pages answer to one call
GuiAnswers ==
    {<<TRUE, TRUE>>} \cup (IF gui.faults > 0 THEN {<<FALSE, TRUE>>, <<TRUE, FALSE>>} ELSE {})

\* run, lines 59-68: the site is down (line 65) and the handler of line 95
\* ends the run, or download_mod_with_dependencies is called for the
\* requested mod
GuiRun ==
    /\ gui.pc = "run"
    /\ \/ /\ gui.faults > 0
          /\ gui' = [gui EXCEPT !.pc = "error", !.faults = @ - 1]
       \/ \E a \in GuiAnswers :
             gui' = GuiCall(gui.mod_url, <<>>, a[1], a[2])
    /\ UNCHANGED <<core, block, batch, aio>>

\* lines 462-467: one iteration of the loop of the innermost call, and line
\* 467 returning when the loop is over.  dep_name is a mod name and
\* downloaded_mods holds file names.
GuiDependency ==
    /\ gui.pc = "analyzing"
    /\ gui.stack # <<>>
    /\ LET top == gui.stack[Len(gui.stack)]
           below == SubSeq(gui.stack, 1, Len(gui.stack) - 1)
       IN
       IF top.i > Len(top.dependencies)
       THEN gui' = GuiReturn(gui, below)
       ELSE LET dep_name == top.dependencies[top.i][1]
                dep_url == top.dependencies[top.i][2]
            IN  IF dep_name \in gui.downloaded_mods \/ dep_url \in gui.analyzed_mods
                THEN gui' = [gui EXCEPT !.stack[Len(gui.stack)].i = @ + 1]
                ELSE \E a \in GuiAnswers : gui' = GuiCall(dep_url, gui.stack, a[1], a[2])
    /\ UNCHANGED <<core, block, batch, aio>>

\* _download (lines 310-387): one attempt of a download thread; it ends the
\* thread when it succeeds (line 368) or when it was the last (line 384)
GuiAttempt(t) ==
    /\ IsAlive(gui.download_threads[t])
    /\ \/ gui' = [gui EXCEPT !.download_threads[t].state = "complete"]
       \/ gui' = IF gui.download_threads[t].attempt < GuiMaxRetries
                 THEN [gui EXCEPT !.download_threads[t].attempt = @ + 1]
                 ELSE [gui EXCEPT !.download_threads[t].state = "failed"]
    /\ UNCHANGED <<core, block, batch, aio>>

\* line 70: the threads that are alive when the analysis is over
GuiCollect ==
    /\ gui.pc = "collect"
    /\ gui' = [gui EXCEPT !.pc = "join",
                          !.active_threads = {t \in 1..Len(gui.download_threads) :
                                                IsAlive(gui.download_threads[t])}]
    /\ UNCHANGED <<core, block, batch, aio>>

\* lines 77-93: every thread of active_threads is joined, then the success
\* is announced
GuiAnnounce ==
    /\ gui.pc = "join"
    /\ \A t \in gui.active_threads : ~IsAlive(gui.download_threads[t])
    /\ gui' = [gui EXCEPT !.pc = "announced"]
    /\ UNCHANGED <<core, block, batch, aio>>

InitGui ==
    /\ CoreIdle
    /\ block = [pc |-> "none"]
    /\ batch = [pc |-> "none"]
    /\ aio = [pc |-> "none"]
    /\ \E catalog \in Catalogs, faults \in 0..MaxFailures :
          gui = [pc |-> "run", mod_url |-> DepUrl("A"), deps |-> catalog,
                 stack |-> <<>>, analyzed_mods |-> {}, downloaded_mods |-> {},
                 download_threads |-> <<>>, active_threads |-> {},
                 faults |-> faults]

NextGui ==
    \/ GuiRun
    \/ GuiDependency
    \/ \E t \in 1..Len(gui.download_threads) : GuiAttempt(t)
    \/ GuiCollect
    \/ GuiAnnounce

SpecGui == InitGui /\ [][NextGui]_vars

\* C40: run announces 'All mods downloaded successfully' only when every
\* download thread it started has finished and none has marked its entry
\* failed.
C40_AnnouncedOnlyOnSuccess ==
    gui.pc = "announced" =>
        \A t \in 1..Len(gui.download_threads) :
            gui.download_threads[t].state = "complete"
====
